---- MODULE Spec2Model ----
(***************************************************************************)
(* A model of the Audio Unit effect host of Audacity                       *)
(* (src/effects/audiounits/AudioUnitWrapper.cpp, which also carries the    *)
(* older AudioUnitEffect.cpp): channel negotiation, the instance           *)
(* lifecycle, block processing, the settings cache, realtime playback      *)
(* with a master instance and its slaves, latency, presets and the         *)
(* descriptor codes of the plug-in paths.                                  *)
(*                                                                         *)
(* The module holds one specification per part of the program:             *)
(*   SpecChannels  AudioUnitEffect::GetChannelCounts                       *)
(*   Spec          SetRateAndChannels, ProcessInitialize, ProcessBlock,    *)
(*                 ProcessFinalize                                         *)
(*   SpecSettings  AudioUnitWrapper::FetchSettings / StoreSettings         *)
(*   SpecRealtime  the master and its slaves: RealtimeInitialize,          *)
(*                 RealtimeAddProcessor, the audio cycle,                  *)
(*                 RealtimeSuspend / Resume, RealtimeFinalize              *)
(*   SpecParameters  the same, for a unit that declares a parameter: the   *)
(*                 notifications of its changes and EventListener          *)
(*   SpecLatency   AudioUnitEffect::GetLatency over processing sessions    *)
(*   SpecPresets   LoadPreset / SavePreset over the configuration          *)
(*   SpecDecode    LoadPreset and AudioUnitWrapper::InterpretBlob          *)
(*   SpecEncode    AudioUnitWrapper::MakeBlob                              *)
(*   SpecDialogs   the OK handlers of the export and import dialogs        *)
(*   SpecCodes     AudioUnitEffectsModule::FromOSType / ToOSType           *)
(*   SpecGroups    SpecRealtime for a host that plays groups of different  *)
(*                 channel counts and rates                                *)
(*   SpecCounts    every handler that could touch the channel pair         *)
(*   SpecThreads   SpecParameters with RealtimeProcess split around the    *)
(*                 render call, interleaved with the run loop              *)
(*   SpecTwoSlaves LoadPreset on a master with two slaves                  *)
(*   SpecTypes     GetChannelCounts, GetType and SupportsRealtime          *)
(*   SpecHost      AudioUnitEffect::SetHost over the private configuration *)
(*   SpecTracks    the contract of PendingTracks (lib-track)               *)
(* Every specification uses all the variables; the ones a part does not    *)
(* touch keep the value its Init gives them.                               *)
(***************************************************************************)
EXTENDS Integers, Sequences, FiniteSets, TLC

VARIABLES
    \* ---- channel negotiation
    chanInfo,          \* the AUChannelInfo table the plug-in declares
    chanQuery,         \* how the last GetChannelCounts' property queries ended
    chanPrev,          \* <<mAudioIns, mAudioOuts>> before the last GetChannelCounts
    mAudioIns,
    mAudioOuts,
    \* ---- instance lifecycle
    mSampleRate,
    mUnitInitialized,
    unitInitialized,   \* the native unit's own state (AudioUnitInitialize / Uninitialize)
    mReady,
    ioAllocated,       \* mInputList / mOutputList are allocated
    renderCallbackSet, \* kAudioUnitProperty_SetRenderCallback was accepted
    mLatencyDone,
    mSampleTime,       \* mTimeStamp.mSampleTime
    op,                \* the operation that ran last
    ret,               \* what it returned
    lastAccept,        \* the plug-in's answers to the last SetRateAndChannels
    prevInitialized,   \* mUnitInitialized when the last SetRateAndChannels began
    lastLen,           \* blockLen of the last ProcessBlock
    lastRenderOk,      \* whether AudioUnitRender succeeded in the last ProcessBlock
    producedSum,       \* sum of blockLen over the successful ProcessBlock calls
                       \* since the last ProcessInitialize
    \* ---- settings cache (AudioUnitWrapper)
    mParameters,       \* the parameter list the unit declares
    unitValue,         \* the plug-in's current value of each parameter
    paramMode,         \* which of the plug-in's calls on a parameter fail now
    settings,          \* AudioUnitEffectSettings::values
    trail,             \* the FetchSettings / StoreSettings calls made in a row
    fetchedEmpty,      \* the last FetchSettings was handed an empty cache
    prevFetch,         \* the cache before the last LoadPreset or InterpretBlob,
                       \* and in the settings cache's own specification the
                       \* cache before the FetchSettings that followed a
                       \* FetchSettings and a StoreSettings
    prevUnit,          \* the plug-in's values before the last StoreSettings
    \* ---- realtime playback: the master and its slaves
    mBlockSize,
    mSlaves,           \* the slave instances, in the order they were added
    mMasterIn,         \* the summing input buffers
    mMasterOut,        \* the buffers the master pass renders into
    mNumSamples,       \* largest numSamples of the cycle's RealtimeProcess calls
    pending,           \* notifications the native runtime raised and has not yet
                       \* delivered to the master's listener, oldest first
    audioPc,           \* where the audio thread is: "idle" or in a "cycle"
    calls,             \* the calls the last realtime handler made, in order
    cycleIns,          \* the cycle's RealtimeProcess calls so far: how many, the
                       \* sum of their inputs and the longest of them
    passIn,            \* what the last master pass was handed, and the inputs
                       \* of the cycle it ended
    cycleMaster,       \* the master unit's values when the cycle started
    staleRender,       \* the last RealtimeProcess rendered a slave that held a
                       \* value the master had left before the cycle started
    lastNotified,      \* for each parameter, the value of the last notification
                       \* handled since the slave list last changed, and
                       \* whether none, one or more were handled
    \* ---- latency
    mUseLatency,
    unitLatency,       \* the plug-in's kAudioUnitProperty_Latency, in milliseconds
    sessionOpen,       \* a ProcessInitialize has returned true
    latencyLog,        \* the GetLatency calls since the last ProcessInitialize
                       \* that returned true: whether the plug-in was queried,
                       \* what it answered and what the call returned
    \* ---- presets
    config,            \* the effect's private configuration: what the "Parameters"
                       \* and "Data" keys of each preset group hold
    presentPreset,     \* the name in the unit's kAudioUnitProperty_PresentPreset
    message,           \* the reason the last preset operation reported, "" if none
    lastLoad,          \* the group of the LoadPreset that ran last and the way
                       \* it took
    prevLoad,          \* the same for the LoadPreset that ran right before it,
                       \* when that one migrated a preset
    lastSave,          \* when SavePreset ran right after a LoadPreset that loaded
                       \* the same group: the group, what its "Data" key held
                       \* before the save, and whether the save wrote the key
    \* ---- the export and import dialogs
    files,             \* what <name>.aupreset holds in the user's preset directory
    selection,         \* the rows selected when OK was pressed last, in list order
    attempts,          \* the Export or Import calls the last OnOk made: the
                       \* preset and the message returned
    dialogEnd,         \* who ended the modal loop of the dialog, in order
    configBefore,      \* the configuration when OK was pressed last
    filesBefore,       \* the files then
    \* ---- the descriptor codes
    osInput,           \* the identifier or the text the conversions started from
    osType,            \* the identifier: the input or what ToOSType returned last
    osText,            \* the text: the input or what FromOSType returned last
    osDone,            \* the conversions applied so far, in order
    \* ---- the host
    hostGroups,        \* the groups of channels the host plays: the channel
                       \* count and the rate of each
    mNumChannels,      \* what SetChannelCount stored in the instance
    \* ---- the two threads
    rendering,         \* the slave whose unit the audio thread is rendering and
                       \* the length of the block, NotRendering outside the call
    \* ---- the pending tracks of a project
    mTracks,           \* the track list of the project: the content of each
                       \* actual track, by TrackId
    mPendingUpdates,   \* the pending tracks, in the order they were registered
    tracksBefore,      \* mTracks when the last handler began
    lastSubstitute,    \* the track SubstitutePendingChangedTrack was handed last
                       \* and the one it returned
    \* ---- the owners of an instance
    mHost,             \* "host" or "NULL": what SetHost was handed
    mMaster            \* "master" for a slave, "NULL" otherwise: what the
                       \* constructor was handed

chanVars == <<chanInfo, chanQuery, chanPrev>>
countVars == <<mAudioIns, mAudioOuts>>
instVars == <<mSampleRate, mUnitInitialized, unitInitialized, mReady, ioAllocated,
              renderCallbackSet, mLatencyDone, mSampleTime, lastAccept,
              prevInitialized, lastLen, lastRenderOk, producedSum>>
callVars == <<op, ret>>

setVars == <<mParameters, unitValue, paramMode, settings, trail, fetchedEmpty,
             prevFetch, prevUnit>>

rtVars == <<mBlockSize, mSlaves, mMasterIn, mMasterOut, mNumSamples, pending,
            audioPc, calls, cycleIns, passIn, cycleMaster, staleRender,
            lastNotified>>

latVars == <<mUseLatency, unitLatency, sessionOpen, latencyLog>>
presetVars == <<config, presentPreset, message, lastLoad, prevLoad, lastSave>>
dialogVars == <<files, selection, attempts, dialogEnd, configBefore, filesBefore>>
osVars == <<osInput, osType, osText, osDone>>
hostVars == <<hostGroups, mNumChannels>>
threadVars == <<rendering>>
trackVars == <<mTracks, mPendingUpdates, tracksBefore, lastSubstitute>>
ownerVars == <<mHost, mMaster>>
otherVars == <<threadVars, trackVars, ownerVars>>
extVars == <<latVars, presetVars, dialogVars, osVars, hostVars, otherVars>>
vars == <<chanVars, countVars, instVars, callVars, setVars, rtVars, extVars>>

(***************************************************************************)
(* Bounds                                                                  *)
(***************************************************************************)
\* longest AUChannelInfo table a plug-in declares
MaxInfo == 2
\* largest blockLen handed to ProcessBlock
MaxBlockLen == 2
\* ProcessBlock is not taken once the sample time has reached this
MaxSampleTime == 4

\* channel counts a plug-in declares: negative is a wildcard, 3 stands for
\* every count above stereo
ChanVals == {-2, -1, 0, 1, 2, 3}
\* what the two unsigned members the constructor leaves unset may hold (a sample)
UnsetCounts == {<<0, 0>>, <<3, 1>>}
\* sample rates the host uses
Rates == {44100, 48000}
\* number of parameters the unit declares
NumParams == 2

AUChannelInfo == [inChannels : ChanVals, outChannels : ChanVals]

RECURSIVE SeqsUpTo(_, _)
SeqsUpTo(S, n) ==
    IF n = 0 THEN {<<>>}
    ELSE LET shorter == SeqsUpTo(S, n - 1)
         IN shorter \cup {Append(s, x) : s \in {t \in shorter : Len(t) = n - 1}, x \in S}

ChanTables == SeqsUpTo(AUChannelInfo, MaxInfo)

(***************************************************************************)
(* AudioUnitEffect::GetChannelCounts                                       *)
(***************************************************************************)
FlagNames == {"haven2m", "haven2s", "havem2n", "haves2n",
              "havem2m", "haves2s", "havem2s", "haves2m"}

\* bool haven2m = false; ... bool haves2m = false;
NoneFound == [f \in FlagNames |-> FALSE]

\* the wildcard resolution at the head of the loop body
ResolveWildcardsToOne(ci) ==
    LET ic == ci.inChannels
        oc == ci.outChannels
    IN IF ic < 0 /\ oc >= 0 THEN [ic |-> 1, oc |-> oc]
       ELSE IF ic >= 0 /\ oc < 0 THEN [ic |-> ic, oc |-> 1]
       ELSE IF ic < 0 /\ oc < 0 THEN [ic |-> 1, oc |-> 1]
       ELSE [ic |-> ic, oc |-> oc]

ResolveWildcards(ci) ==
    LET ic == ci.inChannels
        oc == ci.outChannels
    IN IF ic < 0 /\ oc >= 0 THEN [ic |-> 2, oc |-> oc]
       ELSE IF ic >= 0 /\ oc < 0 THEN [ic |-> ic, oc |-> 2]
       ELSE IF ic < 0 /\ oc < 0 THEN [ic |-> 2, oc |-> 2]
       ELSE [ic |-> ic, oc |-> oc]

\* the if / else-if chain that names the pattern of one resolved entry
MatchPattern(ic, oc) ==
    IF ic = 2 /\ oc = 2 THEN "haves2s"
    ELSE IF ic = 1 /\ oc = 1 THEN "havem2m"
    ELSE IF ic = 1 /\ oc = 2 THEN "havem2s"
    ELSE IF ic = 2 /\ oc = 1 THEN "haves2m"
    ELSE IF ic = 0 /\ oc = 2 THEN "haven2s"
    ELSE IF ic = 0 /\ oc = 1 THEN "haven2m"
    ELSE IF ic = 1 /\ oc = 0 THEN "havem2n"
    ELSE IF ic = 2 /\ oc = 0 THEN "haves2n"
    ELSE "none"

\* a slip that forgets what the earlier entries set
NoteLastPatternOnly(have, pattern) ==
    IF pattern = "none" THEN have ELSE [NoneFound EXCEPT ![pattern] = TRUE]

\* haveXXX = true
NotePattern(have, pattern) ==
    IF pattern = "none" THEN have ELSE [have EXCEPT ![pattern] = TRUE]

\* for (int i = 0; i < dataSize / sizeof(AUChannelInfo); i++) { ... }
RECURSIVE ScanChannelInfo(_, _, _)
ScanChannelInfo(info, i, have) ==
    IF i > Len(info) THEN have
    ELSE LET r == ResolveWildcards(info[i])
         IN ScanChannelInfo(info, i + 1, NotePattern(have, MatchPattern(r.ic, r.oc)))

\* a slip that leaves the members as they were
KeepPreviousCounts(prevIns, prevOuts) == <<prevIns, prevOuts>>

\* mAudioIns = 2; mAudioOuts = 2; before the loop
PresetCounts(prevIns, prevOuts) == <<2, 2>>

\* a slip that tests mono before stereo
ChooseMonoFirst(have, preset) ==
    IF have.havem2m THEN <<1, 1>>
    ELSE IF have.haves2s THEN <<2, 2>>
    ELSE IF have.havem2s THEN <<1, 2>>
    ELSE IF have.haves2m THEN <<2, 1>>
    ELSE IF have.haven2m THEN <<0, 1>>
    ELSE IF have.haven2s THEN <<0, 2>>
    ELSE IF have.haves2n THEN <<2, 0>>
    ELSE IF have.havem2n THEN <<1, 0>>
    ELSE preset

\* the if / else-if chain after the loop
ChooseCounts(have, preset) ==
    IF have.haves2s THEN <<2, 2>>
    ELSE IF have.havem2m THEN <<1, 1>>
    ELSE IF have.havem2s THEN <<1, 2>>
    ELSE IF have.haves2m THEN <<2, 1>>
    ELSE IF have.haven2m THEN <<0, 1>>
    ELSE IF have.haven2s THEN <<0, 2>>
    ELSE IF have.haves2n THEN <<2, 0>>
    ELSE IF have.havem2n THEN <<1, 0>>
    ELSE preset

\* how the two property queries can end
ChanQueries == {"noInfo", "noData", "ok"}

\* the whole function: the <<mAudioIns, mAudioOuts>> it leaves
ChannelCounts(prevIns, prevOuts, query, info) ==
    IF query = "noInfo" THEN <<2, 2>>
    ELSE IF query = "noData" THEN <<2, 2>>
    ELSE ChooseCounts(ScanChannelInfo(info, 1, NoneFound),
                      PresetCounts(prevIns, prevOuts))

GetChannelCounts ==
    /\ UNCHANGED extVars
    /\ \E query \in ChanQueries :
          LET counts == ChannelCounts(mAudioIns, mAudioOuts, query, chanInfo)
          IN /\ mAudioIns' = counts[1]
             /\ mAudioOuts' = counts[2]
             /\ chanQuery' = query
    /\ chanPrev' = <<mAudioIns, mAudioOuts>>
    /\ op' = "GetChannelCounts"
    /\ UNCHANGED <<chanInfo, instVars, ret, setVars, rtVars>>

(***************************************************************************)
(* AudioUnitEffect::GetType / SupportsRealtime                             *)
(***************************************************************************)
\* a slip that tells a generator from the outputs and an analyzer from the
\* inputs
TypeFromOtherSide(ins, outs) ==
    IF ins = 0 /\ outs = 0 THEN "EffectTypeNone"
    ELSE IF outs = 0 THEN "EffectTypeGenerate"
    ELSE IF ins = 0 THEN "EffectTypeAnalyze"
    ELSE "EffectTypeProcess"

\* the tests of GetType, in its order
EffectType(ins, outs) ==
    IF ins = 0 /\ outs = 0 THEN "EffectTypeNone"
    ELSE IF ins = 0 THEN "EffectTypeGenerate"
    ELSE IF outs = 0 THEN "EffectTypeAnalyze"
    ELSE "EffectTypeProcess"

\* GetType on an instance whose SetHost has run GetChannelCounts
GetType ==
    /\ UNCHANGED extVars
    /\ chanQuery # "none"
    /\ ret' = EffectType(mAudioIns, mAudioOuts)
    /\ op' = "GetType"
    /\ UNCHANGED <<chanVars, countVars, instVars, setVars, rtVars>>

\* return GetType() == EffectTypeProcess
SupportsRealtime ==
    /\ UNCHANGED extVars
    /\ chanQuery # "none"
    /\ ret' = (EffectType(mAudioIns, mAudioOuts) = "EffectTypeProcess")
    /\ op' = "SupportsRealtime"
    /\ UNCHANGED <<chanVars, countVars, instVars, setVars, rtVars>>

(***************************************************************************)
(* AudioUnitEffect::SetRateAndChannels                                     *)
(***************************************************************************)
\* the property sets and the initialize call the plug-in answers
AcceptKeys == {"rateGlobal", "rateInput", "formatInput",
               "rateOutput", "formatOutput", "initialize"}
\* The function returns at the first call the plug-in rejects and makes no
\* later call, so an answer set with one rejection stands for every set that
\* rejects the same call first.
Accepts == {acc \in [AcceptKeys -> BOOLEAN] :
               Cardinality({k \in AcceptKeys : ~acc[k]}) <= 1}
NoAnswers == [k \in AcceptKeys |-> TRUE]

\* a slip that leaves the flag set when the unit was initialized
KeepInitializedFlag(flag) == flag

\* if (mUnitInitialized) { AudioUnitUninitialize(mUnit); mUnitInitialized = false; }
FlagAfterUninitialize(flag) == FALSE

\* AudioUnitUninitialize is called only when the flag is set
NativeAfterUninitialize(flag, native) == IF flag THEN FALSE ELSE native

\* the chain of early returns: TRUE when the function reaches "return true"
RateAndChannelsAccepted(acc, ins, outs) ==
    IF ~acc.rateGlobal THEN FALSE
    ELSE IF ins > 0 /\ ~acc.rateInput THEN FALSE
    ELSE IF ins > 0 /\ ~acc.formatInput THEN FALSE
    ELSE IF outs > 0 /\ ~acc.rateOutput THEN FALSE
    ELSE IF outs > 0 /\ ~acc.formatOutput THEN FALSE
    ELSE IF ~acc.initialize THEN FALSE
    ELSE TRUE

\* mUnitInitialized when the function returns
FlagAfterSetRate(flag, accepted) ==
    IF accepted THEN TRUE ELSE FlagAfterUninitialize(flag)

\* the native unit's state when the function returns
NativeAfterSetRate(flag, native, accepted) ==
    IF accepted THEN TRUE ELSE NativeAfterUninitialize(flag, native)

\* the call SetHost makes right after GetChannelCounts
SetRateAndChannels ==
    /\ UNCHANGED extVars
    /\ \E acc \in Accepts :
          LET accepted == RateAndChannelsAccepted(acc, mAudioIns, mAudioOuts)
          IN /\ mUnitInitialized' = FlagAfterSetRate(mUnitInitialized, accepted)
             /\ unitInitialized' =
                   NativeAfterSetRate(mUnitInitialized, unitInitialized, accepted)
             /\ ret' = accepted
             /\ lastAccept' = acc
             /\ prevInitialized' = mUnitInitialized
    /\ op' = "SetRateAndChannels"
    /\ lastLen' = 0
    /\ lastRenderOk' = TRUE
    /\ UNCHANGED <<rtVars, setVars, chanVars, countVars, mSampleRate, mReady, ioAllocated,
                   renderCallbackSet, mLatencyDone, mSampleTime, producedSum>>

\* AudioUnitEffect::SetSampleRate
SetSampleRate ==
    /\ UNCHANGED extVars
    /\ \E rate \in Rates : mSampleRate' = rate
    /\ op' = "SetSampleRate"
    /\ ret' = TRUE
    /\ lastAccept' = NoAnswers
    /\ prevInitialized' = FALSE
    /\ lastLen' = 0
    /\ lastRenderOk' = TRUE
    /\ UNCHANGED <<rtVars, setVars, chanVars, countVars, mUnitInitialized, unitInitialized, mReady,
                   ioAllocated, renderCallbackSet, mLatencyDone, mSampleTime,
                   producedSum>>

\* channel counts the host hands to SetChannelCount
GroupChannels == {1, 2}

\* a slip that takes the count of the group for the channel pair
CountsFollowGroup(ins, outs, numChannels) == <<numChannels, numChannels>>

\* mAudioIns and mAudioOuts when SetChannelCount returns: it assigns
\* mNumChannels and nothing else
CountsAfterSetChannelCount(ins, outs, numChannels) == <<ins, outs>>

\* AudioUnitEffect::SetChannelCount
SetChannelCount ==
    /\ \E numChannels \in GroupChannels :
          /\ mNumChannels' = numChannels
          /\ mAudioIns' = CountsAfterSetChannelCount(mAudioIns, mAudioOuts, numChannels)[1]
          /\ mAudioOuts' = CountsAfterSetChannelCount(mAudioIns, mAudioOuts, numChannels)[2]
    /\ op' = "SetChannelCount"
    /\ ret' = TRUE
    /\ lastAccept' = NoAnswers
    /\ prevInitialized' = FALSE
    /\ lastLen' = 0
    /\ lastRenderOk' = TRUE
    /\ UNCHANGED <<rtVars, setVars, chanVars, mSampleRate, mUnitInitialized,
                   unitInitialized, mReady, ioAllocated, renderCallbackSet,
                   mLatencyDone, mSampleTime, producedSum>>
    /\ UNCHANGED <<latVars, presetVars, dialogVars, osVars, hostGroups, otherVars>>

\* AudioUnitEffect::SetBlockSize: it returns mBlockSize and assigns nothing
SetBlockSize ==
    /\ UNCHANGED extVars
    /\ op' = "SetBlockSize"
    /\ ret' = TRUE
    /\ lastAccept' = NoAnswers
    /\ prevInitialized' = FALSE
    /\ lastLen' = 0
    /\ lastRenderOk' = TRUE
    /\ UNCHANGED <<rtVars, setVars, chanVars, countVars, mSampleRate, mUnitInitialized,
                   unitInitialized, mReady, ioAllocated, renderCallbackSet,
                   mLatencyDone, mSampleTime, producedSum>>

(***************************************************************************)
(* AudioUnitEffect::ProcessInitialize / ProcessFinalize / ProcessBlock     *)
(***************************************************************************)
\* ProcessInitialize, under the name of the handler that runs it
ProcessInitializeAs(caller) ==
    /\ \E acc \in Accepts, callbackOk \in BOOLEAN, resetOk \in BOOLEAN :
          LET accepted == RateAndChannelsAccepted(acc, mAudioIns, mAudioOuts)
          IN /\ mUnitInitialized' = FlagAfterSetRate(mUnitInitialized, accepted)
             /\ unitInitialized' =
                   NativeAfterSetRate(mUnitInitialized, unitInitialized, accepted)
             /\ lastAccept' = acc
             /\ prevInitialized' = mUnitInitialized
             /\ renderCallbackSet' =
                   IF accepted /\ callbackOk THEN TRUE ELSE renderCallbackSet
             /\ IF accepted /\ callbackOk /\ resetOk
                THEN /\ mLatencyDone' = FALSE
                     /\ mReady' = TRUE
                     /\ ret' = TRUE
                ELSE /\ UNCHANGED <<mLatencyDone, mReady>>
                     /\ ret' = FALSE
    /\ ioAllocated' = TRUE
    /\ mSampleTime' = 0
    /\ producedSum' = 0
    /\ op' = caller
    /\ lastLen' = 0
    /\ lastRenderOk' = TRUE
    /\ sessionOpen' = (sessionOpen \/ ret')
    /\ latencyLog' = IF ret' THEN <<>> ELSE latencyLog
    /\ UNCHANGED <<setVars, chanVars, countVars, mSampleRate, mUseLatency,
                   unitLatency, presetVars, dialogVars, osVars, hostVars, otherVars>>

ProcessInitialize ==
    /\ ProcessInitializeAs("ProcessInitialize")
    /\ UNCHANGED rtVars

\* ProcessFinalize, under the name of the handler that runs it
ProcessFinalizeAs(caller) ==
    /\ mReady' = FALSE
    /\ ioAllocated' = FALSE
    /\ op' = caller
    /\ ret' = TRUE
    /\ lastAccept' = NoAnswers
    /\ prevInitialized' = FALSE
    /\ lastLen' = 0
    /\ lastRenderOk' = TRUE
    /\ UNCHANGED <<setVars, chanVars, countVars, mSampleRate, mUnitInitialized,
                   unitInitialized, renderCallbackSet, mLatencyDone, mSampleTime,
                   producedSum>>

ProcessFinalize ==
    /\ UNCHANGED extVars
    /\ ProcessFinalizeAs("ProcessFinalize")
    /\ UNCHANGED rtVars

\* a slip that counts the frames of a failed render too
AdvanceAlways(time, blockLen, renderOk) == time + blockLen

\* mTimeStamp.mSampleTime += blockLen, reached only when the render succeeded
SampleTimeAfterBlock(time, blockLen, renderOk) ==
    IF renderOk THEN time + blockLen ELSE time

\* return 0 on a failed render, return blockLen otherwise
BlockResult(blockLen, renderOk) == IF renderOk THEN blockLen ELSE 0

ProcessBlock ==
    /\ UNCHANGED extVars
    /\ ioAllocated
    /\ mSampleTime < MaxSampleTime
    /\ \E blockLen \in 0 .. MaxBlockLen, renderOk \in BOOLEAN :
          /\ mSampleTime' = SampleTimeAfterBlock(mSampleTime, blockLen, renderOk)
          /\ ret' = BlockResult(blockLen, renderOk)
          /\ lastLen' = blockLen
          /\ lastRenderOk' = renderOk
          /\ producedSum' = IF renderOk THEN producedSum + blockLen ELSE producedSum
    /\ op' = "ProcessBlock"
    /\ lastAccept' = NoAnswers
    /\ prevInitialized' = FALSE
    /\ UNCHANGED <<rtVars, setVars, chanVars, countVars, mSampleRate, mUnitInitialized,
                   unitInitialized, mReady, ioAllocated, renderCallbackSet,
                   mLatencyDone>>

(***************************************************************************)
(* AudioUnitEffect::GetLatency                                             *)
(***************************************************************************)
\* GetLatency is not taken once the session's log holds this many calls
MaxLatencyCalls == 2

\* latencies a plug-in reports, in milliseconds
Latencies == {0, 1}

\* sampleCount( latency * mSampleRate ): the conversion drops the fraction
LatencySamples(latencyMs, rate) == (latencyMs * rate) \div 1000

\* a slip that asks the plug-in on every call
QueriesWhenEnabled(use, done) == use

\* if (mUseLatency && !mLatencyDone)
QueriesLatency(use, done) == use /\ ~done

\* latency stays 0.0 when AudioUnitGetProperty fails; every call that does not
\* ask the plug-in returns 0
GetLatency ==
    /\ Len(latencyLog) < MaxLatencyCalls
    /\ \E queryOk \in BOOLEAN :
          LET queried == QueriesLatency(mUseLatency, mLatencyDone)
              answer == IF queried /\ queryOk THEN unitLatency ELSE 0
              result == IF queried THEN LatencySamples(answer, mSampleRate) ELSE 0
          IN /\ mLatencyDone' = (IF queried THEN TRUE ELSE mLatencyDone)
             /\ ret' = result
             /\ latencyLog' = Append(latencyLog, [queried |-> queried,
                                                  answer |-> answer,
                                                  rate |-> mSampleRate,
                                                  value |-> result])
    /\ op' = "GetLatency"
    /\ lastAccept' = NoAnswers
    /\ prevInitialized' = FALSE
    /\ lastLen' = 0
    /\ lastRenderOk' = TRUE
    /\ UNCHANGED <<rtVars, setVars, chanVars, countVars, mSampleRate, mUnitInitialized,
                   unitInitialized, mReady, ioAllocated, renderCallbackSet,
                   mSampleTime, producedSum, mUseLatency, unitLatency,
                   sessionOpen, presetVars, dialogVars, osVars, hostVars, otherVars>>

\* the plug-in changes its latency; the listener's handling of the
\* notification leaves mLatencyDone alone
PluginChangesLatency ==
    /\ \E latency \in Latencies \ {unitLatency} : unitLatency' = latency
    /\ op' = "PluginChangesLatency"
    /\ UNCHANGED <<rtVars, setVars, chanVars, countVars, instVars, ret, mUseLatency,
                   sessionOpen, latencyLog, presetVars, dialogVars, osVars, hostVars, otherVars>>

(***************************************************************************)
(* AudioUnitWrapper::FetchSettings / StoreSettings                         *)
(***************************************************************************)
\* AudioUnitParameterID
ParamIDs == 1 .. NumParams

\* AudioUnitParameterValue: 0, the value ResetValues leaves, and 1 for any other
ParamValues == {0, 1}

\* What the plug-in answers for a parameter in its present mode. Neither
\* function asks for the value of, or sets, a parameter whose info query
\* failed, so "noInfo" stands for every mode in which that query fails.
ParamModes == {"ok", "noInfo", "noGet", "noSet", "noGetSet"}

\* ParameterInfo's constructor returns before mName.emplace() when the
\* kAudioUnitProperty_ParameterInfo query fails: pi.mName has a value otherwise
HasName(mode) == mode # "noInfo"

\* AudioUnitGetParameter returns an error
GetParameterFails(mode) == mode \in {"noGet", "noGetSet"}

\* AudioUnitSetParameter returns an error
SetParameterFails(mode) == mode \in {"noSet", "noGetSet"}

\* std::unordered_map: an empty map, and operator[] assignment
EmptyMap == [id \in {} |-> 0]

Put(values, id, value) ==
    [k \in (DOMAIN values) \cup {id} |-> IF k = id THEN value ELSE values[k]]

\* AudioUnitEffectSettings::ResetValues: every value held becomes zero
ResetValues(values) == [k \in DOMAIN values |-> 0]

\* a slip that enters a zero for a parameter that cannot be fetched
FetchKeysFailures(values, id, mode, value) ==
    IF ~HasName(mode) \/ GetParameterFails(mode)
    THEN Put(values, id, 0)
    ELSE Put(values, id, value)

\* a slip that keys the fetched value by an id past the parameter list
FetchKeysUndeclared(values, id, mode, value) ==
    IF ~HasName(mode) \/ GetParameterFails(mode)
    THEN values
    ELSE Put(values, id + NumParams, value)

\* the lambda FetchSettings hands to ForEachParameter
FetchVisitor(values, id, mode, value) ==
    IF ~HasName(mode) \/ GetParameterFails(mode)
    THEN values
    ELSE Put(values, id, value)

\* a slip that ends the loop at the first parameter that cannot be fetched
RECURSIVE FetchStopsAtFailure(_, _, _, _, _)
FetchStopsAtFailure(params, i, values, modes, unit) ==
    IF i > Len(params) THEN values
    ELSE IF ~HasName(modes[params[i]]) \/ GetParameterFails(modes[params[i]])
    THEN values
    ELSE FetchStopsAtFailure(params, i + 1,
             Put(values, params[i], unit[params[i]]), modes, unit)

\* ForEachParameter with the visitor of FetchSettings, which always returns
\* true: the loop never breaks. A null mParameters is the empty list.
RECURSIVE FetchEachParameter(_, _, _, _, _)
FetchEachParameter(params, i, values, modes, unit) ==
    IF i > Len(params) THEN values
    ELSE FetchEachParameter(params, i + 1,
             FetchVisitor(values, params[i], modes[params[i]], unit[params[i]]),
             modes, unit)

FetchSettings ==
    /\ UNCHANGED extVars
    /\ settings' = FetchEachParameter(mParameters, 1, ResetValues(settings),
                                      paramMode, unitValue)
    /\ ret' = TRUE
    /\ op' = "FetchSettings"
    /\ trail' = IF trail = "FS" THEN "FSF" ELSE "F"
    /\ fetchedEmpty' = (DOMAIN settings = {})
    /\ prevFetch' = IF trail = "FS" THEN settings ELSE settings'
    /\ prevUnit' = unitValue
    /\ UNCHANGED <<mParameters, unitValue, paramMode>>
    /\ UNCHANGED <<chanVars, countVars, instVars, rtVars>>

\* a slip that resets the parameters the cache does not hold
StoreResetsAbsent(unit, id, mode, values) ==
    IF HasName(mode)
    THEN IF id \in DOMAIN values
         THEN IF SetParameterFails(mode) THEN unit
              ELSE [unit EXCEPT ![id] = values[id]]
         ELSE [unit EXCEPT ![id] = 0]
    ELSE unit

\* a slip that hands the map's key to AudioUnitSetParameter
StoreWritesKey(unit, id, mode, values) ==
    IF HasName(mode)
    THEN IF id \in DOMAIN values
         THEN IF SetParameterFails(mode) THEN unit
              ELSE [unit EXCEPT ![id] = id]
         ELSE unit
    ELSE unit

\* the lambda StoreSettings hands to ForEachParameter: the plug-in's values
\* after the visit
StoreVisitor(unit, id, mode, values) ==
    IF HasName(mode)
    THEN IF id \in DOMAIN values
         THEN IF SetParameterFails(mode) THEN unit
              ELSE [unit EXCEPT ![id] = values[id]]
         ELSE unit
    ELSE unit

\* ForEachParameter with the visitor of StoreSettings
RECURSIVE StoreEachParameter(_, _, _, _, _)
StoreEachParameter(params, i, unit, modes, values) ==
    IF i > Len(params) THEN unit
    ELSE StoreEachParameter(params, i + 1,
             StoreVisitor(unit, params[i], modes[params[i]], values),
             modes, values)

StoreSettings ==
    /\ UNCHANGED extVars
    /\ unitValue' = StoreEachParameter(mParameters, 1, unitValue, paramMode, settings)
    /\ ret' = TRUE
    /\ op' = "StoreSettings"
    /\ trail' = IF trail \in {"F", "FSF"} THEN "FS" ELSE "S"
    /\ fetchedEmpty' = FALSE
    /\ prevFetch' = settings
    /\ prevUnit' = unitValue
    /\ UNCHANGED <<mParameters, paramMode, settings>>
    /\ UNCHANGED <<chanVars, countVars, instVars, rtVars>>

\* the plug-in changes a parameter's value on its own (its user interface,
\* automation): what the parameter listener reports
PluginChangesValue ==
    /\ UNCHANGED extVars
    /\ \E id \in ParamIDs, value \in ParamValues :
          /\ value # unitValue[id]
          /\ unitValue' = [unitValue EXCEPT ![id] = value]
    /\ op' = "plugin"
    /\ ret' = TRUE
    /\ trail' = "-"
    /\ fetchedEmpty' = FALSE
    /\ prevFetch' = settings
    /\ prevUnit' = unitValue'
    /\ UNCHANGED <<mParameters, paramMode, settings>>
    /\ UNCHANGED <<chanVars, countVars, instVars, rtVars>>

\* the plug-in enters a mode in which a parameter answers differently
PluginChangesMode ==
    /\ UNCHANGED extVars
    /\ \E id \in ParamIDs, mode \in ParamModes :
          /\ mode # paramMode[id]
          /\ paramMode' = [paramMode EXCEPT ![id] = mode]
    /\ op' = "plugin"
    /\ ret' = TRUE
    /\ trail' = "-"
    /\ fetchedEmpty' = FALSE
    /\ prevFetch' = settings
    /\ prevUnit' = unitValue
    /\ UNCHANGED <<mParameters, unitValue, settings>>
    /\ UNCHANGED <<chanVars, countVars, instVars, rtVars>>

(***************************************************************************)
(* Realtime playback: AudioUnitEffect as master, with its slaves           *)
(***************************************************************************)
\* most slaves RealtimeAddProcessor is asked for
MaxSlaves == 2
\* most notifications raised and not yet delivered
MaxPending == 2
\* most RealtimeProcess calls in one cycle
MaxCalls == 2

\* the level of a block the host hands in, constant over the block
InLevels == {1}
\* what memory that was not zero-filled may hold (a sample)
UnsetSamples == {0, 1}
\* the sample value the plug-in renders
OutLevel == 1

\* ArraysOf<float>: released, or one buffer of mBlockSize samples per channel
NoBuffers == [alloc |-> FALSE, data |-> <<>>]

FilledBuffers(chans, size, sample) ==
    [alloc |-> TRUE, data |-> [c \in 1 .. chans |-> [s \in 1 .. size |-> sample]]]

\* one entry of the log of calls a handler makes: the call, the instance it is
\* made on (0 the master, i the slave mSlaves[i]) and its arguments: a
\* parameter's id and value, or the group and the frame count of a block
Call(name, unit, id, value) == [call |-> name, unit |-> unit, id |-> id, value |-> value]

\* a call that carries no parameter
Plain(name, unit) == Call(name, unit, 0, 0)

\* no notification handled yet
NotNotified == [id \in ParamIDs |-> [value |-> 0, many |-> 0]]

\* the parameter ids SetHost registers with the master's listener: every id
\* of the unit's parameter list
RegisteredIDs(params) == {params[i] : i \in 1 .. Len(params)}

\* a slip that leaves the new unit with the values it was created with
CopyNothing(srcValue, dstValue) == dstValue

\* CopyParameters: the class info read from the source unit is set on the
\* destination unit; the values the destination holds afterwards
CopyParameters(srcValue, dstValue) == srcValue

\* the values a unit holds when AudioComponentInstanceNew has made it
DefaultValues == [id \in ParamIDs |-> 0]

\* a member no constructor has set and nothing has read yet
Unset == -1

\* the AudioStreamBasicDescription of SetRateAndChannels, as the unit holds
\* it: the rate, and mChannelsPerFrame on the input and on the output scope
StreamFormat(rate, ins, outs) == [mSampleRate |-> rate, input |-> ins, output |-> outs]

\* An instance built by the constructor with a master, after its SetHost: of
\* its state the model keeps the parameter values of its unit, the channel
\* pair GetChannelCounts chose (the unit is of the master's component and
\* declares what the master's does), mNumChannels, mSampleRate and the
\* stream format its unit took last (its flags and its time stamp follow
\* ProcessInitialize and ProcessBlock as the master's do).
NewSlave(value, ins, outs) ==
    [value |-> value, mAudioIns |-> ins, mAudioOuts |-> outs,
     mNumChannels |-> Unset, mSampleRate |-> 44100,
     format |-> StreamFormat(44100, ins, outs)]

\* the channel count and the rate of the groups of channels the host plays
ChannelGroup(channels, rate) == [channels |-> channels, rate |-> rate]
ChannelGroups == {ChannelGroup(1, 48000), ChannelGroup(2, 44100)}
StereoGroups == {ChannelGroup(2, 44100)}

\* slave->SetChannelCount(numChannels); slave->SetSampleRate(sampleRate)
ConfigureSlave(slave, numChannels, sampleRate) ==
    [slave EXCEPT !.mNumChannels = numChannels, !.mSampleRate = sampleRate]

\* a stream format made of the channel count of the group
FormatOfGroup(slave) ==
    StreamFormat(slave.mSampleRate, slave.mNumChannels, slave.mNumChannels)

\* the stream format SetRateAndChannels hands to the unit of an instance
FormatOfInstance(slave) ==
    StreamFormat(slave.mSampleRate, slave.mAudioIns, slave.mAudioOuts)

\* what a realtime handler that leaves the master's own processing state
\* alone does to the variables of the instance
MasterKept ==
    /\ lastAccept' = NoAnswers
    /\ prevInitialized' = FALSE
    /\ lastLen' = 0
    /\ lastRenderOk' = TRUE
    /\ UNCHANGED <<mSampleRate, mUnitInitialized, unitInitialized, mReady,
                   ioAllocated, renderCallbackSet, mLatencyDone, mSampleTime,
                   producedSum>>

\* no cycle under way: nothing summed, no call counted
NoCycle == [count |-> 0, sum |-> <<>>, longest |-> 0]

\* RealtimeInitialize: mMasterIn is zero-filled (the third argument of reinit),
\* mMasterOut is not, then ProcessInitialize(0). The host goes on to add
\* processors and to run cycles only when it returned true.
RealtimeInitialize ==
    /\ audioPc = "off"
    /\ ~mMasterIn.alloc
    /\ ProcessInitializeAs("RealtimeInitialize")
    /\ mMasterIn' = FilledBuffers(mAudioIns, mBlockSize, 0)
    /\ \E unset \in UnsetSamples :
          mMasterOut' = FilledBuffers(mAudioOuts, mBlockSize, unset)
    /\ audioPc' = IF ret' THEN "idle" ELSE "off"
    /\ calls' = <<Plain("mMasterIn.reinit", 0), Plain("mMasterOut.reinit", 0),
                 Plain("ProcessInitialize", 0)>>
    /\ staleRender' = FALSE
    /\ passIn' = <<>>
    /\ UNCHANGED <<mBlockSize, mSlaves, mNumSamples, pending, cycleIns,
                   cycleMaster, lastNotified>>

\* how RealtimeAddProcessor can end: the slave's SetHost finds no unit,
\* CopyParameters fails, the slave's ProcessInitialize fails, or all succeed
AddOutcomes == {"noUnit", "noCopy", "noInit", "ok"}

\* the calls RealtimeAddProcessor makes, up to the return the outcome takes
AddProcessorCalls(outcome, slave, group) ==
    LET configured == <<Plain("SetHost", slave), Plain("SetBlockSize", slave),
                        Call("SetChannelCount", slave, 0, group.channels),
                        Call("SetSampleRate", slave, 0, group.rate),
                        Plain("CopyParameters", slave)>>
    IN IF outcome = "noUnit" THEN <<Plain("SetHost", slave)>>
       ELSE IF outcome = "noCopy" THEN configured
       ELSE configured \o
               <<Plain("mSlaves.push_back", 0), Plain("ProcessInitialize", slave)>>

\* mSlaves when RealtimeAddProcessor returns: the slave is in the list once
\* CopyParameters has succeeded, whatever its ProcessInitialize returns
SlavesAfterAdd(slaves, masterValue, outcome, ins, outs, group) ==
    LET slave == ConfigureSlave(
                    NewSlave(CopyParameters(masterValue, DefaultValues), ins, outs),
                    group.channels, group.rate)
    IN IF outcome \in {"noUnit", "noCopy"} THEN slaves
       ELSE IF outcome = "ok"
       THEN Append(slaves, [slave EXCEPT !.format = FormatOfInstance(slave)])
       ELSE Append(slaves, slave)

RealtimeAddProcessor ==
    /\ UNCHANGED extVars
    /\ audioPc = "idle"
    /\ Len(mSlaves) < MaxSlaves
    /\ \E outcome \in AddOutcomes, group \in hostGroups :
          /\ mSlaves' = SlavesAfterAdd(mSlaves, unitValue, outcome, mAudioIns,
                                       mAudioOuts, group)
          /\ calls' = AddProcessorCalls(outcome, Len(mSlaves) + 1, group)
          /\ ret' = (outcome = "ok")
          /\ lastNotified' =
                IF outcome \in {"noUnit", "noCopy"} THEN lastNotified ELSE NotNotified
    /\ op' = "RealtimeAddProcessor"
    /\ MasterKept
    /\ staleRender' = FALSE
    /\ passIn' = <<>>
    /\ UNCHANGED <<mBlockSize, mMasterIn, mMasterOut, mNumSamples, pending,
                   audioPc, cycleIns, cycleMaster>>
    /\ UNCHANGED <<chanVars, countVars, setVars>>

\* the loop over mSlaves: one ProcessFinalize for each slave, in list order
SlaveFinalizes(cnt) == [i \in 1 .. cnt |-> Plain("ProcessFinalize", i)]

\* a slip that finalizes the master before its slaves
FinalizeMasterFirst(cnt) ==
    <<Plain("ProcessFinalize", 0)>> \o SlaveFinalizes(cnt)
        \o <<Plain("mSlaves.clear", 0), Plain("mMasterIn.reset", 0),
              Plain("mMasterOut.reset", 0)>>

\* the calls RealtimeFinalize makes: the loop, the clear, the two resets and
\* the master's own ProcessFinalize
FinalizeCalls(cnt) ==
    SlaveFinalizes(cnt)
        \o <<Plain("mSlaves.clear", 0), Plain("mMasterIn.reset", 0),
              Plain("mMasterOut.reset", 0), Plain("ProcessFinalize", 0)>>

RealtimeFinalize ==
    /\ UNCHANGED extVars
    /\ audioPc # "cycle"
    /\ mMasterIn.alloc
    /\ calls' = FinalizeCalls(Len(mSlaves))
    /\ mSlaves' = <<>>
    /\ mMasterIn' = NoBuffers
    /\ mMasterOut' = NoBuffers
    /\ ProcessFinalizeAs("RealtimeFinalize")
    /\ audioPc' = "off"
    /\ lastNotified' = NotNotified
    /\ staleRender' = FALSE
    /\ passIn' = <<>>
    /\ UNCHANGED <<mBlockSize, mNumSamples, pending, cycleIns, cycleMaster>>

\* RealtimeSuspend: return true
RealtimeSuspend ==
    /\ UNCHANGED extVars
    /\ audioPc # "off"
    /\ op' = "RealtimeSuspend"
    /\ ret' = TRUE
    /\ calls' = <<>>
    /\ MasterKept
    /\ staleRender' = FALSE
    /\ passIn' = <<>>
    /\ UNCHANGED <<mBlockSize, mSlaves, mMasterIn, mMasterOut, mNumSamples, pending,
                   audioPc, cycleIns, cycleMaster, lastNotified>>
    /\ UNCHANGED <<chanVars, countVars, setVars>>

\* a slip that takes the outcome of the reset for the ready flag
ReadyFollowsReset(ready, resetOk) == ready /\ resetOk

\* mReady when RealtimeResume returns: the function does not assign it
ReadyAfterResume(ready, resetOk) == ready

\* RealtimeResume: AudioUnitReset on the global scope, false when it fails
RealtimeResume ==
    /\ UNCHANGED extVars
    /\ audioPc # "off"
    /\ \E resetOk \in BOOLEAN :
          /\ ret' = resetOk
          /\ mReady' = ReadyAfterResume(mReady, resetOk)
    /\ op' = "RealtimeResume"
    /\ calls' = <<Plain("AudioUnitReset", 0)>>
    /\ lastAccept' = NoAnswers
    /\ prevInitialized' = FALSE
    /\ lastLen' = 0
    /\ lastRenderOk' = TRUE
    /\ staleRender' = FALSE
    /\ passIn' = <<>>
    /\ UNCHANGED <<mSampleRate, mUnitInitialized, unitInitialized, ioAllocated,
                   renderCallbackSet, mLatencyDone, mSampleTime, producedSum>>
    /\ UNCHANGED <<mBlockSize, mSlaves, mMasterIn, mMasterOut, mNumSamples, pending,
                   audioPc, cycleIns, cycleMaster, lastNotified>>
    /\ UNCHANGED <<chanVars, countVars, setVars>>

\* the buffers the host hands to RealtimeProcess: one channel more than the
\* unit takes in, numSamples samples each, channel c holding level * c
HostChannels(ins) == ins + 1

HostInput(chans, numSamples, level) ==
    [c \in 1 .. chans |-> [s \in 1 .. numSamples |-> level * c]]

\* a slip that stops the clearing loop one channel early
ClearAllButLast(buf, ins, size) ==
    [buf EXCEPT !.data =
        [c \in DOMAIN buf.data |->
            IF c < ins THEN [s \in 1 .. size |-> 0] ELSE buf.data[c]]]

\* for (i < mAudioIns) memset(mMasterIn[i].get(), 0, mBlockSize * sizeof(float))
ClearMasterIn(buf, ins, size) ==
    [buf EXCEPT !.data =
        [c \in DOMAIN buf.data |->
            IF c <= ins THEN [s \in 1 .. size |-> 0] ELSE buf.data[c]]]

RealtimeProcessStart ==
    /\ UNCHANGED extVars
    /\ audioPc = "idle"
    /\ mMasterIn.alloc
    /\ mMasterIn' = ClearMasterIn(mMasterIn, mAudioIns, mBlockSize)
    /\ mNumSamples' = 0
    /\ audioPc' = "cycle"
    /\ op' = "RealtimeProcessStart"
    /\ ret' = TRUE
    /\ calls' = <<>>
    /\ cycleIns' = [count |-> 0,
                    sum |-> [c \in 1 .. HostChannels(mAudioIns) |->
                                [s \in 1 .. mBlockSize |-> 0]],
                    longest |-> 0]
    /\ cycleMaster' = unitValue
    /\ MasterKept
    /\ staleRender' = FALSE
    /\ passIn' = <<>>
    /\ UNCHANGED <<mBlockSize, mSlaves, mMasterOut, pending, lastNotified>>
    /\ UNCHANGED <<chanVars, countVars, setVars>>

\* a slip that stores the input instead of adding it
OverwriteInput(buf, inbuf, numSamples, ins) ==
    [buf EXCEPT !.data =
        [c \in DOMAIN buf.data |->
            IF c <= ins
            THEN [s \in DOMAIN buf.data[c] |->
                     IF s <= numSamples THEN inbuf[c][s] ELSE buf.data[c][s]]
            ELSE buf.data[c]]]

\* for (c < mAudioIns) for (s < numSamples) mMasterIn[c][s] += inbuf[c][s]
AccumulateInput(buf, inbuf, numSamples, ins) ==
    [buf EXCEPT !.data =
        [c \in DOMAIN buf.data |->
            IF c <= ins
            THEN [s \in DOMAIN buf.data[c] |->
                     IF s <= numSamples THEN buf.data[c][s] + inbuf[c][s]
                     ELSE buf.data[c][s]]
            ELSE buf.data[c]]]

\* wxMax(numSamples, mNumSamples)
wxMax(a, b) == IF a > b THEN a ELSE b

\* a slip that always hands the block to the first slave
FirstSlave(group) == 1

\* mSlaves[group]: the slave whose ProcessBlock RealtimeProcess returns
ProcessingSlave(group) == group

\* the slave holds, for a registered parameter, a value that differs from the
\* master's although the master has held its value since the cycle began
HoldsOlderValue(slave, params) ==
    \E id \in RegisteredIDs(params) :
        /\ slave.value[id] # unitValue[id]
        /\ cycleMaster[id] = unitValue[id]

RealtimeProcess ==
    /\ UNCHANGED extVars
    /\ audioPc = "cycle"
    /\ cycleIns.count < MaxCalls
    /\ \E group \in 1 .. Len(mSlaves), numSamples \in 1 .. mBlockSize,
          level \in InLevels, renderOk \in BOOLEAN :
          LET inbuf == HostInput(HostChannels(mAudioIns), numSamples, level)
              which == ProcessingSlave(group)
          IN /\ mMasterIn' = AccumulateInput(mMasterIn, inbuf, numSamples, mAudioIns)
             /\ mNumSamples' = wxMax(numSamples, mNumSamples)
             /\ ret' = BlockResult(numSamples, renderOk)
             /\ calls' = <<Call("RealtimeProcess", 0, group, numSamples),
                          Call("ProcessBlock", which, 0, numSamples)>>
             /\ lastLen' = numSamples
             /\ lastRenderOk' = renderOk
             /\ staleRender' = HoldsOlderValue(mSlaves[which], mParameters)
             /\ cycleIns' =
                   [count |-> cycleIns.count + 1,
                    sum |-> [c \in DOMAIN cycleIns.sum |->
                               [s \in DOMAIN cycleIns.sum[c] |->
                                   IF s \in DOMAIN inbuf[c]
                                   THEN cycleIns.sum[c][s] + inbuf[c][s]
                                   ELSE cycleIns.sum[c][s]]],
                    longest |-> IF numSamples > cycleIns.longest
                                THEN numSamples ELSE cycleIns.longest]
    /\ op' = "RealtimeProcess"
    /\ lastAccept' = NoAnswers
    /\ prevInitialized' = FALSE
    /\ passIn' = <<>>
    /\ UNCHANGED <<mSampleRate, mUnitInitialized, unitInitialized, mReady,
                   ioAllocated, renderCallbackSet, mLatencyDone, mSampleTime,
                   producedSum>>
    /\ UNCHANGED <<mBlockSize, mSlaves, mMasterOut, pending, audioPc, cycleMaster,
                   lastNotified>>
    /\ UNCHANGED <<chanVars, countVars, setVars>>

\* AudioUnitRender into the output buffers: blockLen frames of every channel
\* when it succeeds
RenderInto(buf, blockLen, renderOk) ==
    IF ~renderOk THEN buf
    ELSE [buf EXCEPT !.data =
             [c \in DOMAIN buf.data |->
                 [s \in DOMAIN buf.data[c] |->
                     IF s <= blockLen THEN OutLevel ELSE buf.data[c][s]]]]

\* RealtimeProcessEnd: ProcessBlock(mMasterIn, mMasterOut, mNumSamples) on the
\* master, whatever it returns
RealtimeProcessEnd ==
    /\ UNCHANGED extVars
    /\ audioPc = "cycle"
    /\ ioAllocated
    /\ mSampleTime < MaxSampleTime
    /\ \E renderOk \in BOOLEAN :
          /\ mSampleTime' = SampleTimeAfterBlock(mSampleTime, mNumSamples, renderOk)
          /\ producedSum' = IF renderOk THEN producedSum + mNumSamples ELSE producedSum
          /\ mMasterOut' = RenderInto(mMasterOut, mNumSamples, renderOk)
          /\ lastRenderOk' = renderOk
    /\ passIn' = [data |-> [c \in 1 .. mAudioIns |-> mMasterIn.data[c]],
                  len |-> mNumSamples,
                  cycle |-> cycleIns]
    /\ cycleIns' = NoCycle
    /\ cycleMaster' = DefaultValues
    /\ calls' = <<Call("ProcessBlock", 0, 0, mNumSamples)>>
    /\ lastLen' = mNumSamples
    /\ audioPc' = "idle"
    /\ op' = "RealtimeProcessEnd"
    /\ ret' = TRUE
    /\ lastAccept' = NoAnswers
    /\ prevInitialized' = FALSE
    /\ staleRender' = FALSE
    /\ UNCHANGED <<mSampleRate, mUnitInitialized, unitInitialized, mReady,
                   ioAllocated, renderCallbackSet, mLatencyDone>>
    /\ UNCHANGED <<mBlockSize, mSlaves, mMasterIn, mNumSamples, pending,
                   lastNotified>>
    /\ UNCHANGED <<chanVars, countVars, setVars>>

(***************************************************************************)
(* AudioUnitEffect::EventListener                                          *)
(***************************************************************************)
\* AudioUnitEvent with the value a parameter change carries
ParameterEvent(id, value) == [type |-> "parameter", id |-> id, value |-> value]
LatencyEvent == [type |-> "property", id |-> 0, value |-> 0]

\* a slip that tests the value before setting it
SlaveIgnoresZero(slave, unit, event) ==
    IF event.value # 0
    THEN [slave |-> [slave EXCEPT !.value = [@ EXCEPT ![event.id] = event.value]],
          calls |-> <<Call("AudioUnitSetParameter", unit, event.id, event.value)>>]
    ELSE [slave |-> slave, calls |-> <<>>]

\* EventListener on an instance that has a master (mSlaves[unit]), handed a
\* parameter change: AudioUnitSetParameter on its own unit, and nothing else.
\* The slave afterwards, and the calls made.
SlaveEventListener(slave, unit, event) ==
    [slave |-> [slave EXCEPT !.value = [@ EXCEPT ![event.id] = event.value]],
     calls |-> <<Call("AudioUnitSetParameter", unit, event.id, event.value)>>]

\* a slip that ends the loop after the first slave
RECURSIVE PropagateToFirstOnly(_, _, _, _)
PropagateToFirstOnly(slaves, i, event, log) ==
    IF i > Len(slaves) \/ i > 1 THEN [slaves |-> slaves, calls |-> log]
    ELSE LET heard == SlaveEventListener(slaves[i], i, event)
         IN PropagateToFirstOnly(
                [slaves EXCEPT ![i] = heard.slave], i + 1, event,
                log \o <<Call("EventListener", i, event.id, event.value)>>
                    \o heard.calls)

\* for (i < mSlaves.size()) mSlaves[i]->EventListener(inEvent, inParameterValue):
\* the slaves afterwards, and the calls made
RECURSIVE PropagateToSlaves(_, _, _, _)
PropagateToSlaves(slaves, i, event, log) ==
    IF i > Len(slaves) THEN [slaves |-> slaves, calls |-> log]
    ELSE LET heard == SlaveEventListener(slaves[i], i, event)
         IN PropagateToSlaves(
                [slaves EXCEPT ![i] = heard.slave], i + 1, event,
                log \o <<Call("EventListener", i, event.id, event.value)>>
                    \o heard.calls)

\* a slip that returns for every event, not only for a property change
ListenerReturnsEarly(slaves, event) == [slaves |-> slaves, calls |-> <<>>]

\* EventListener on the master (mMaster is null): return on a property
\* change, propagate a parameter change
MasterEventListener(slaves, event) ==
    IF event.type = "property" THEN [slaves |-> slaves, calls |-> <<>>]
    ELSE PropagateToSlaves(slaves, 1, event, <<>>)

\* the native runtime notifies the listener on the run loop it was created
\* with, one notification at a time, oldest first
NextNotification(queue) == Head(queue)

\* the run loop delivers the oldest pending parameter change to the master
EventListener ==
    /\ UNCHANGED extVars
    /\ pending # <<>>
    /\ LET event == NextNotification(pending)
           heard == MasterEventListener(mSlaves, event)
       IN /\ mSlaves' = heard.slaves
          /\ calls' = <<Call("EventListener", 0, event.id, event.value)>> \o heard.calls
          /\ lastNotified' =
                [lastNotified EXCEPT ![event.id] =
                    [value |-> event.value, many |-> IF @.many = 0 THEN 1 ELSE 2]]
    /\ pending' = Tail(pending)
    /\ op' = "EventListener"
    /\ ret' = TRUE
    /\ MasterKept
    /\ staleRender' = FALSE
    /\ passIn' = <<>>
    /\ UNCHANGED <<mBlockSize, mMasterIn, mMasterOut, mNumSamples, audioPc,
                   cycleIns, cycleMaster>>
    /\ UNCHANGED <<chanVars, countVars, setVars>>

\* the unit reports a change of its latency property: the listener returns
\* without a call
LatencyPropertyChange ==
    /\ UNCHANGED extVars
    /\ audioPc # "off"
    /\ LET heard == MasterEventListener(mSlaves, LatencyEvent)
       IN /\ mSlaves' = heard.slaves
          /\ calls' = <<Call("EventListener", 0, -1, 0)>> \o heard.calls
    /\ op' = "LatencyPropertyChange"
    /\ ret' = TRUE
    /\ MasterKept
    /\ staleRender' = FALSE
    /\ passIn' = <<>>
    /\ UNCHANGED <<mBlockSize, mMasterIn, mMasterOut, mNumSamples, pending, audioPc,
                   cycleIns, cycleMaster, lastNotified>>
    /\ UNCHANGED <<chanVars, countVars, setVars>>

\* the master's unit changes the value of a registered parameter (its own
\* user interface, automation) and the runtime queues the notification
ParameterValueChange ==
    /\ UNCHANGED extVars
    /\ Len(pending) < MaxPending
    /\ \E id \in RegisteredIDs(mParameters), value \in ParamValues :
          /\ value # unitValue[id]
          /\ unitValue' = [unitValue EXCEPT ![id] = value]
          /\ pending' = Append(pending, ParameterEvent(id, value))
    /\ op' = "ParameterValueChange"
    /\ ret' = TRUE
    /\ calls' = <<>>
    /\ MasterKept
    /\ staleRender' = FALSE
    /\ passIn' = <<>>
    /\ UNCHANGED <<mParameters, paramMode, settings, trail, fetchedEmpty, prevFetch,
                   prevUnit>>
    /\ UNCHANGED <<mBlockSize, mSlaves, mMasterIn, mMasterOut, mNumSamples, audioPc,
                   cycleIns, cycleMaster, lastNotified>>
    /\ UNCHANGED <<chanVars, countVars>>

(***************************************************************************)
(* The audio thread and the run loop                                       *)
(*                                                                         *)
(* RealtimeProcess runs on the audio thread and EventListener on the run   *)
(* loop of the thread that created the listener.  Neither takes a lock, so *)
(* the listener can run between the moment the audio thread enters         *)
(* AudioUnitRender on a slave's unit and the moment the call returns.      *)
(* RealtimeProcessCall and RealtimeProcessReturn are the two halves of     *)
(* RealtimeProcess around that call.                                       *)
(***************************************************************************)
NotRendering == [slave |-> 0, len |-> 0]

\* RealtimeProcess up to AudioUnitRender in the slave's ProcessBlock
RealtimeProcessCall ==
    /\ audioPc = "cycle"
    /\ rendering = NotRendering
    /\ cycleIns.count < MaxCalls
    /\ \E group \in 1 .. Len(mSlaves), numSamples \in 1 .. mBlockSize,
          level \in InLevels :
          LET inbuf == HostInput(HostChannels(mAudioIns), numSamples, level)
              which == ProcessingSlave(group)
          IN /\ mMasterIn' = AccumulateInput(mMasterIn, inbuf, numSamples, mAudioIns)
             /\ mNumSamples' = wxMax(numSamples, mNumSamples)
             /\ calls' = <<Call("RealtimeProcess", 0, group, numSamples),
                          Call("ProcessBlock", which, 0, numSamples),
                          Call("AudioUnitRender", which, 0, numSamples)>>
             /\ rendering' = [slave |-> which, len |-> numSamples]
             /\ lastLen' = numSamples
             /\ staleRender' = HoldsOlderValue(mSlaves[which], mParameters)
             /\ cycleIns' =
                   [count |-> cycleIns.count + 1,
                    sum |-> [c \in DOMAIN cycleIns.sum |->
                               [s \in DOMAIN cycleIns.sum[c] |->
                                   IF s \in DOMAIN inbuf[c]
                                   THEN cycleIns.sum[c][s] + inbuf[c][s]
                                   ELSE cycleIns.sum[c][s]]],
                    longest |-> IF numSamples > cycleIns.longest
                                THEN numSamples ELSE cycleIns.longest]
    /\ op' = "AudioUnitRender"
    /\ lastAccept' = NoAnswers
    /\ prevInitialized' = FALSE
    /\ passIn' = <<>>
    /\ UNCHANGED <<mSampleRate, mUnitInitialized, unitInitialized, mReady,
                   ioAllocated, renderCallbackSet, mLatencyDone, mSampleTime,
                   producedSum, lastRenderOk, ret>>
    /\ UNCHANGED <<mBlockSize, mSlaves, mMasterOut, pending, audioPc, cycleMaster,
                   lastNotified>>
    /\ UNCHANGED <<chanVars, countVars, setVars>>
    /\ UNCHANGED <<latVars, presetVars, dialogVars, osVars, hostVars, trackVars, ownerVars>>

\* AudioUnitRender returns, and ProcessBlock and RealtimeProcess with it
RealtimeProcessReturn ==
    /\ rendering # NotRendering
    /\ \E renderOk \in BOOLEAN :
          /\ ret' = BlockResult(rendering.len, renderOk)
          /\ lastRenderOk' = renderOk
    /\ rendering' = NotRendering
    /\ op' = "RealtimeProcess"
    /\ UNCHANGED <<mSampleRate, mUnitInitialized, unitInitialized, mReady,
                   ioAllocated, renderCallbackSet, mLatencyDone, mSampleTime,
                   lastAccept, prevInitialized, lastLen, producedSum>>
    /\ UNCHANGED <<chanVars, countVars, setVars, rtVars>>
    /\ UNCHANGED <<latVars, presetVars, dialogVars, osVars, hostVars, trackVars, ownerVars>>

(***************************************************************************)
(* Presets: AudioUnitEffect::LoadPreset / SavePreset                       *)
(***************************************************************************)
\* names of user presets
PresetNames == {"A", "B"}

\* mHost->GetUserPresetsGroup(name)
UserPresetsGroup(name) == <<"UserPresets", name>>

\* wxFileNameFromPath(group): the last component of the path
wxFileNameFromPath(group) == group[Len(group)]

Groups == {UserPresetsGroup(name) : name \in PresetNames}

\* the parameter values a class info of the model carries: the unit's first
\* parameter takes every value, the others stay at their default
PresetValues ==
    {value \in [ParamIDs -> ParamValues] : \A id \in ParamIDs \ {1} : value[id] = 0}

\* kAudioUnitProperty_ClassInfo: the property list of the unit's state, which
\* holds the name of the present preset and the parameter values
ClassInfo(name, value) == [name |-> name, value |-> value]

\* A byte sequence: of no byte at all, a property list in the binary or in
\* the XML format, or bytes that are no property list.
Bytes(kind, name, value) == [kind |-> kind, name |-> name, value |-> value]
NoBytes == Bytes("empty", "", DefaultValues)
Junk == Bytes("junk", "", DefaultValues)
PListFormats == {"bplist", "xml"}

\* CFPropertyListCreateData(content, format)
PropertyListData(format, content) == Bytes(format, content.name, content.value)

\* CFPropertyListCreateWithData reads either format and returns null for
\* anything else
IsPropertyList(bytes) == bytes.kind \in PListFormats
PropertyList(bytes) == ClassInfo(bytes.name, bytes.value)

\* A text of the configuration: the base64 form of a byte sequence, or a
\* text that is no base64; NoText stands for a key that is absent.
Text(kind, bytes) == [text |-> kind, bytes |-> bytes]
NoText == Text("absent", NoBytes)
OtherText == Text("other", NoBytes)
wxBase64Encode(bytes) == Text("base64", bytes)

\* wxBase64Decode returns an empty buffer for a text that is no base64
wxBase64Decode(text) == IF text.text = "base64" THEN text.bytes ELSE NoBytes

\* wxString::IsEmpty
IsEmptyText(text) == text.text = "absent" \/ (text.text = "base64" /\ text.bytes = NoBytes)

\* The older name/value text under "Parameters": whether
\* CommandParameters::SetParameters can read it, and the values it names.
Legacy(wellFormed, value) ==
    [present |-> TRUE, wellFormed |-> wellFormed, value |-> value]
NoLegacy == [present |-> FALSE, wellFormed |-> FALSE, value |-> DefaultValues]

\* GetPrivateConfig returns whether the key is there
HasLegacy(cfg, group) == cfg[group].Parameters.present
HasData(cfg, group) == cfg[group].Data.text # "absent"

\* RemovePrivateConfig(group, "Parameters")
RemoveLegacy(cfg, group) == [cfg EXCEPT ![group].Parameters = NoLegacy]

\* SetPrivateConfig(group, PRESET_KEY, parms)
SetData(cfg, group, text) == [cfg EXCEPT ![group].Data = text]

\* how CFPropertyListCreateData can end: null, data of length zero, or data
SerialOutcomes == {"null", "empty", "data"}

\* SavePreset sets the present preset to the name of the group; whether the
\* unit took it is not looked at, and the model has the unit take it
PresetNameAfterSave(group) == wxFileNameFromPath(group)

\* What the plug-in and the host answer during one call. A function returns
\* at the first failure, so a set of answers with one failure stands for every
\* set that fails there first: SetAutomationParameters, the serialization
\* (null or of length zero), SetPrivateConfig, CFDataCreateWithBytesNoCopy, or
\* the unit's taking of the class info.
AllOk == [autoOk |-> TRUE, serial |-> "data", writeOk |-> TRUE, dataOk |-> TRUE,
          accept |-> TRUE]
SaveAnswers ==
    {AllOk, [AllOk EXCEPT !.serial = "null"], [AllOk EXCEPT !.serial = "empty"],
     [AllOk EXCEPT !.writeOk = FALSE]}
DecodeAnswers ==
    {AllOk, [AllOk EXCEPT !.dataOk = FALSE], [AllOk EXCEPT !.accept = FALSE]}
LoadAnswers ==
    SaveAnswers \cup DecodeAnswers \cup {[AllOk EXCEPT !.autoOk = FALSE]}

\* SavePreset returns false when there is no data or the write fails; with
\* data of length zero it writes nothing and returns true
SaveResult(serial, writeOk) ==
    IF serial = "null" THEN FALSE
    ELSE IF serial = "empty" THEN TRUE
    ELSE writeOk

\* a slip that serializes in the XML format
SaveAsXml(cfg, group, content, serial, writeOk) ==
    IF serial = "data" /\ writeOk
    THEN SetData(cfg, group, wxBase64Encode(PropertyListData("xml", content)))
    ELSE cfg

\* the configuration when SavePreset returns
ConfigAfterSave(cfg, group, content, serial, writeOk) ==
    IF serial = "data" /\ writeOk
    THEN SetData(cfg, group, wxBase64Encode(PropertyListData("bplist", content)))
    ELSE cfg

NoLoad == [group |-> <<>>, path |-> "-", answers |-> AllOk, blob |-> NoBytes]
NoSave == [group |-> <<>>, before |-> NoText, wrote |-> FALSE]

\* How the decoding of a preset's bytes ends: there is no byte, no CFData, no
\* property list, the unit rejects the class info, or the unit has taken it.
DecodePaths == {"noBytes", "noData", "noPlist", "rejected", "loaded"}

\* a slip that goes on when the unit has rejected the class info
DecodeIgnoresRejection(bytes, dataOk, accept) ==
    IF bytes.kind = "empty" THEN "noBytes"
    ELSE IF ~dataOk THEN "noData"
    ELSE IF ~IsPropertyList(bytes) THEN "noPlist"
    ELSE "loaded"

\* the checks InterpretBlob makes, and LoadPreset after wxBase64Decode, each
\* followed by a return
DecodePath(bytes, dataOk, accept) ==
    IF bytes.kind = "empty" THEN "noBytes"
    ELSE IF ~dataOk THEN "noData"
    ELSE IF ~IsPropertyList(bytes) THEN "noPlist"
    ELSE IF ~accept THEN "rejected"
    ELSE "loaded"

\* the reason that goes with the way taken
DecodeMessage(path) ==
    IF path = "noBytes" THEN "Failed to decode preset"
    ELSE IF path = "noData" THEN "Failed to convert preset to internal format"
    ELSE IF path = "noPlist" THEN "Failed to create property list for preset"
    ELSE IF path = "rejected" THEN "Failed to set class info for preset"
    ELSE ""

\* the calls that decode the bytes, up to the return the way takes
DecodeCalls(path) ==
    IF path = "noBytes" THEN <<>>
    ELSE IF path = "noData" THEN <<Plain("CFDataCreateWithBytesNoCopy", 0)>>
    ELSE IF path = "noPlist"
    THEN <<Plain("CFDataCreateWithBytesNoCopy", 0),
           Plain("CFPropertyListCreateWithData", 0)>>
    ELSE IF path \in {"rejected", "loaded"}
    THEN <<Plain("CFDataCreateWithBytesNoCopy", 0),
           Plain("CFPropertyListCreateWithData", 0),
           Plain("AudioUnitSetProperty", 0)>>
    ELSE <<>>

\* The way LoadPreset takes. With a "Parameters" key: the text cannot be
\* read, SetAutomationParameters fails, SavePreset fails, or the preset is
\* migrated. Without: no "Data" key, or the decoding of what it holds.
LegacyPaths == {"legacyUnread", "legacyUnset", "legacyUnsaved", "migrated"}
DataPaths == {"notFound"} \cup DecodePaths

LoadPath(cfg, group, autoOk, saved, dataOk, accept) ==
    IF HasLegacy(cfg, group)
    THEN IF ~cfg[group].Parameters.wellFormed THEN "legacyUnread"
         ELSE IF ~autoOk THEN "legacyUnset"
         ELSE IF ~saved THEN "legacyUnsaved"
         ELSE "migrated"
    ELSE IF ~HasData(cfg, group) THEN "notFound"
    ELSE DecodePath(wxBase64Decode(cfg[group].Data), dataOk, accept)

\* the branch of the older format returns true whatever happened in it
LoadResult(path) == path \in LegacyPaths \cup {"loaded"}

\* the calls of the loop over mSlaves, from slave i on: the class info is
\* set on the slave's unit, a failure is logged, and the listeners are
\* notified either way
RECURSIVE SlavePresetCalls(_, _, _)
SlavePresetCalls(i, cnt, rejecting) ==
    IF i > cnt THEN <<>>
    ELSE <<Plain("AudioUnitSetProperty", i)>>
            \o (IF i = rejecting THEN <<Plain("wxLogError", i)>> ELSE <<>>)
            \o <<Plain("AUParameterListenerNotify", i)>>
            \o SlavePresetCalls(i + 1, cnt, rejecting)

\* the calls LoadPreset makes once it has found the "Data" key
LoadCalls(path, cnt, rejecting) ==
    IF path \notin DecodePaths THEN <<>>
    ELSE <<Plain("wxBase64Decode", 0)>> \o DecodeCalls(path)
            \o (IF path = "loaded"
                THEN <<Plain("AUParameterListenerNotify", 0)>>
                        \o SlavePresetCalls(1, cnt, rejecting)
                ELSE <<>>)

\* a slip that leaves the loop at the slave that rejects the class info
SlavesUntilRejection(slaves, path, value, rejecting) ==
    [i \in 1 .. Len(slaves) |->
        IF path = "loaded" /\ (rejecting = 0 \/ i < rejecting)
        THEN [slaves[i] EXCEPT !.value = value]
        ELSE slaves[i]]

\* AudioUnitSetProperty(kAudioUnitProperty_ClassInfo) on the slaves: one that
\* rejects it keeps its state, and the loop goes on
SlavesAfterLoad(slaves, path, value, rejecting) ==
    [i \in 1 .. Len(slaves) |->
        IF path = "loaded" /\ i # rejecting
        THEN [slaves[i] EXCEPT !.value = value]
        ELSE slaves[i]]

\* LoadPreset(group). In the branch of the older format SetAutomationParameters
\* sets the values the text names and SavePreset runs inside the call.
LoadPreset ==
    /\ \E group \in Groups, answers \in LoadAnswers, rejecting \in 0 .. Len(mSlaves) :
          LET legacy == config[group].Parameters
              saved == SaveResult(answers.serial, answers.writeOk)
              path == LoadPath(config, group, answers.autoOk, saved,
                               answers.dataOk, answers.accept)
              saves == path \in {"legacyUnsaved", "migrated"}
              bytes == wxBase64Decode(config[group].Data)
              content == PropertyList(bytes)
              valueSet == IF saves THEN legacy.value ELSE unitValue
              name == IF saves THEN PresetNameAfterSave(group) ELSE presentPreset
              cfgSaved == IF saves
                          THEN ConfigAfterSave(config, group, ClassInfo(name, valueSet),
                                               answers.serial, answers.writeOk)
                          ELSE config
          IN /\ config' = IF path = "migrated"
                          THEN RemoveLegacy(cfgSaved, group)
                          ELSE cfgSaved
             /\ unitValue' = IF path = "loaded" THEN content.value ELSE valueSet
             /\ presentPreset' = IF path = "loaded" THEN content.name ELSE name
             /\ mSlaves' = SlavesAfterLoad(mSlaves, path, content.value, rejecting)
             /\ ret' = LoadResult(path)
             /\ message' = DecodeMessage(path)
             /\ calls' = LoadCalls(path, Len(mSlaves), rejecting)
             /\ lastLoad' = [group |-> group, path |-> path, answers |-> answers,
                             blob |-> IF path \in DecodePaths THEN bytes ELSE NoBytes]
    /\ prevLoad' = IF op = "LoadPreset" /\ lastLoad.path = "migrated"
                   THEN lastLoad ELSE NoLoad
    /\ lastSave' = NoSave
    /\ prevFetch' = settings
    /\ op' = "LoadPreset"
    /\ UNCHANGED <<chanVars, countVars, instVars, latVars, dialogVars, osVars, hostVars, otherVars>>
    /\ UNCHANGED <<mParameters, paramMode, settings, trail, fetchedEmpty, prevUnit>>
    /\ UNCHANGED <<mBlockSize, mMasterIn, mMasterOut, mNumSamples, pending,
                   audioPc, cycleIns, passIn, cycleMaster, staleRender,
                   lastNotified>>

\* the byte sequences a caller hands to InterpretBlob
BlobInputs ==
    {NoBytes, Junk} \cup {Bytes(format, name, value) :
                             format \in PListFormats, name \in {"A"}, value \in PresetValues}

\* AudioUnitWrapper::InterpretBlob(settings, group, buf): FetchSettings runs
\* once the unit has taken the class info; the text it returns is empty then
InterpretBlob ==
    /\ \E group \in Groups, buf \in BlobInputs, answers \in DecodeAnswers :
          LET path == DecodePath(buf, answers.dataOk, answers.accept)
              content == PropertyList(buf)
          IN /\ unitValue' = IF path = "loaded" THEN content.value ELSE unitValue
             /\ presentPreset' = IF path = "loaded" THEN content.name ELSE presentPreset
             /\ settings' = IF path = "loaded"
                            THEN FetchEachParameter(mParameters, 1, ResetValues(settings),
                                                    paramMode, unitValue')
                            ELSE settings
             /\ message' = DecodeMessage(path)
             /\ ret' = (path = "loaded")
             /\ calls' = DecodeCalls(path)
                            \o (IF path = "loaded" THEN <<Plain("FetchSettings", 0)>>
                                ELSE <<>>)
             /\ lastLoad' = [group |-> group, path |-> path, answers |-> answers,
                             blob |-> buf]
    /\ prevLoad' = NoLoad
    /\ lastSave' = NoSave
    /\ prevFetch' = settings
    /\ op' = "InterpretBlob"
    /\ UNCHANGED <<chanVars, countVars, instVars, latVars, dialogVars, osVars, hostVars, otherVars>>
    /\ UNCHANGED <<mBlockSize, mSlaves, mMasterIn, mMasterOut, mNumSamples,
                   pending, audioPc, cycleIns, passIn, cycleMaster, staleRender,
                   lastNotified>>
    /\ UNCHANGED <<mParameters, paramMode, trail, fetchedEmpty, prevUnit, config>>

\* SavePreset(group)
SavePreset ==
    /\ \E group \in Groups, answers \in SaveAnswers :
          LET name == PresetNameAfterSave(group)
          IN /\ presentPreset' = name
             /\ config' = ConfigAfterSave(config, group, ClassInfo(name, unitValue),
                                          answers.serial, answers.writeOk)
             /\ ret' = SaveResult(answers.serial, answers.writeOk)
             /\ lastSave' = IF op = "LoadPreset" /\ lastLoad.group = group
                               /\ lastLoad.path = "loaded"
                            THEN [group |-> group, before |-> config[group].Data,
                                  wrote |-> answers.serial = "data"
                                               /\ answers.writeOk]
                            ELSE NoSave
    /\ message' = ""
    /\ calls' = <<>>
    /\ prevLoad' = NoLoad
    /\ lastLoad' = NoLoad
    /\ op' = "SavePreset"
    /\ UNCHANGED <<chanVars, countVars, instVars, latVars, dialogVars, osVars, hostVars, otherVars, setVars>>
    /\ UNCHANGED <<mBlockSize, mSlaves, mMasterIn, mMasterOut, mNumSamples,
                   pending, audioPc, cycleIns, passIn, cycleMaster, staleRender,
                   lastNotified>>

\* a null CFDataRef
NullData == Bytes("null", "", DefaultValues)

\* What the unit and the serialization answer to MakeBlob: the setting of the
\* preset name, the reading of the class info, and the data.
MakeOk == [nameOk |-> TRUE, getOk |-> TRUE, serial |-> "data"]
MakeAnswers ==
    {MakeOk, [MakeOk EXCEPT !.nameOk = FALSE], [MakeOk EXCEPT !.getOk = FALSE],
     [MakeOk EXCEPT !.serial = "null"], [MakeOk EXCEPT !.serial = "empty"]}

\* the message of the chain of else-ifs
MakeBlobMessage(answers) ==
    IF ~answers.nameOk THEN "Failed to set preset name"
    ELSE IF ~answers.getOk THEN "Failed to retrieve preset content"
    ELSE IF answers.serial = "null" THEN "Failed to convert property list to XML data"
    ELSE IF answers.serial = "empty" THEN "XML data is empty after conversion"
    ELSE ""

\* a slip that hands out no data when the data is of length zero
EmptyGivesNoData(answers, format, content) ==
    IF ~answers.nameOk \/ ~answers.getOk \/ answers.serial # "data" THEN NullData
    ELSE PropertyListData(format, content)

\* data is reset only by the third step, and is returned whatever its length
MakeBlobData(answers, format, content) ==
    IF ~answers.nameOk \/ ~answers.getOk \/ answers.serial = "null" THEN NullData
    ELSE IF answers.serial = "empty" THEN NoBytes
    ELSE PropertyListData(format, content)

\* the calls MakeBlob makes, each with how it ended: -1 for a failure, and for
\* the serialization 0 for data of length zero
MakeBlobCalls(answers) ==
    IF ~answers.nameOk THEN <<Call("SetProperty", 0, 0, -1)>>
    ELSE IF ~answers.getOk
    THEN <<Call("SetProperty", 0, 0, 1), Call("GetFixedSizeProperty", 0, 0, -1)>>
    ELSE <<Call("SetProperty", 0, 0, 1), Call("GetFixedSizeProperty", 0, 0, 1),
           Call("CFPropertyListCreateData", 0, 0,
                IF answers.serial = "null" THEN -1
                ELSE IF answers.serial = "empty" THEN 0 ELSE 1)>>

\* AudioUnitWrapper::MakeBlob(cfname, binary): the pair it returns
MakeBlob ==
    /\ \E name \in PresetNames, binary \in BOOLEAN, answers \in MakeAnswers :
          LET content == ClassInfo(name, unitValue)
              format == IF binary THEN "bplist" ELSE "xml"
          IN /\ presentPreset' = IF answers.nameOk THEN name ELSE presentPreset
             /\ ret' = [data |-> MakeBlobData(answers, format, content),
                        message |-> MakeBlobMessage(answers)]
             /\ message' = MakeBlobMessage(answers)
             /\ calls' = MakeBlobCalls(answers)
    /\ lastLoad' = NoLoad
    /\ prevLoad' = NoLoad
    /\ lastSave' = NoSave
    /\ op' = "MakeBlob"
    /\ UNCHANGED <<chanVars, countVars, instVars, latVars, dialogVars, osVars, hostVars, otherVars, setVars, config>>
    /\ UNCHANGED <<mBlockSize, mSlaves, mMasterIn, mMasterOut, mNumSamples,
                   pending, audioPc, cycleIns, passIn, cycleMaster, staleRender,
                   lastNotified>>

\* the plug-in changes the value of its first parameter on its own
PluginChangesState ==
    /\ \E value \in ParamValues \ {unitValue[1]} :
          unitValue' = [unitValue EXCEPT ![1] = value]
    /\ op' = "plugin"
    /\ lastLoad' = NoLoad
    /\ prevLoad' = NoLoad
    /\ lastSave' = NoSave
    /\ UNCHANGED <<chanVars, countVars, instVars, latVars, dialogVars, osVars, hostVars, otherVars, rtVars, ret, config,
                   presentPreset, message>>
    /\ UNCHANGED <<mParameters, paramMode, settings, trail, fetchedEmpty,
                   prevFetch, prevUnit>>

PresetsIdle ==
    /\ config = <<>>
    /\ presentPreset = ""
    /\ message = ""
    /\ lastLoad = NoLoad
    /\ prevLoad = NoLoad
    /\ lastSave = NoSave

(***************************************************************************)
(* The export and import dialogs                                           *)
(***************************************************************************)
\* the rows of mList, in the order GetNextItem walks them
PresetList == <<"A", "B">>

\* the rows that can be selected: every sub-list of the rows
Selections ==
    {<<>>} \cup {<<PresetList[i]>> : i \in 1..Len(PresetList)} \cup {PresetList}

\* a file that does not exist
NoFile == [kind |-> "nofile", name |-> "", value |-> DefaultValues]

\* bytes that start with "bplist" and are no property list
BinaryJunk == Bytes("bplist?", "", DefaultValues)

\* isBin: the bytes start with "bplist"
IsBin(bytes) == bytes.kind \in {"bplist", "bplist?"}

\* what can fail in one Export for a reason outside the effect, named by the
\* step that fails first
ExportAnswers == {"none", "mkdir", "open", "data", "serial", "length", "write"}

\* the step at which Export returns; "done" is the return of wxEmptyString
ExportPath(text, fail) ==
    LET bytes == wxBase64Decode(text)
    IN IF fail = "mkdir" THEN "mkdir"
       ELSE IF fail = "open" THEN "open"
       ELSE IF text.text = "absent" THEN "key"
       ELSE IF bytes = NoBytes THEN "decode"
       ELSE IF IsBin(bytes)
            THEN IF fail = "data" THEN "data"
                 ELSE IF ~IsPropertyList(bytes) THEN "plist"
                 ELSE IF fail = "serial" THEN "serial"
                 ELSE IF fail = "length" THEN "length"
                 ELSE IF fail = "write" THEN "write"
                 ELSE "done"
       ELSE IF fail = "write" THEN "write"
       ELSE "done"

\* the file after Export: wxFFile(fullPath, "wb") empties it as soon as it
\* opens; a write that fails leaves some part of the bytes
ExportedFile(old, text, fail) ==
    LET bytes == wxBase64Decode(text)
        path == ExportPath(text, fail)
    IN IF path \in {"mkdir", "open"} THEN old
       ELSE IF path = "write" THEN Junk
       ELSE IF path # "done" THEN NoBytes
       ELSE IF IsBin(bytes) THEN PropertyListData("xml", PropertyList(bytes))
       ELSE bytes

\* a way for Export to write the configuration, which it does not do
ExportStoresConversion(cfg, group, written) ==
    IF written.kind = "xml" THEN SetData(cfg, group, wxBase64Encode(written)) ELSE cfg

\* the configuration after Export: it reads the "Data" key and writes no key
ConfigAfterExport(cfg, group, written) == cfg

Attempt(name, path) == [name |-> name, path |-> path]

\* the loop of AudioUnitEffectExportDialog::OnOk from row i of the selection
RECURSIVE ExportSelected(_, _, _, _, _)
ExportSelected(sel, i, fs, cfg, fails) ==
    IF i > Len(sel) THEN [files |-> fs, config |-> cfg, attempts |-> <<>>]
    ELSE LET name == sel[i]
             group == UserPresetsGroup(name)
             text == cfg[group].Data
             path == ExportPath(text, fails[i])
             written == ExportedFile(fs[name], text, fails[i])
             fs2 == [fs EXCEPT ![name] = written]
             cfg2 == ConfigAfterExport(cfg, group, written)
         IN IF path # "done"
            THEN [files |-> fs2, config |-> cfg2, attempts |-> <<Attempt(name, path)>>]
            ELSE LET rest == ExportSelected(sel, i + 1, fs2, cfg2, fails)
                 IN [rest EXCEPT !.attempts = <<Attempt(name, path)>> \o @]

\* what can fail in one Import for a reason outside the effect
ImportAnswers == {"none", "open", "read", "store"}

\* the step at which Import returns
ImportPath(file, fail) ==
    IF fail = "open" \/ file = NoFile THEN "open"
    ELSE IF fail = "read" THEN "read"
    ELSE IF IsEmptyText(wxBase64Encode(file)) THEN "encode"
    ELSE IF fail = "store" THEN "store"
    ELSE "done"

\* the configuration after Import
ConfigAfterImport(cfg, group, file, fail) ==
    IF ImportPath(file, fail) = "done" THEN SetData(cfg, group, wxBase64Encode(file))
    ELSE cfg

\* the loop of AudioUnitEffectImportDialog::OnOk from row i of the selection
RECURSIVE ImportSelected(_, _, _, _, _)
ImportSelected(sel, i, fs, cfg, fails) ==
    IF i > Len(sel) THEN [config |-> cfg, attempts |-> <<>>]
    ELSE LET name == sel[i]
             path == ImportPath(fs[name], fails[i])
             cfg2 == ConfigAfterImport(cfg, UserPresetsGroup(name), fs[name], fails[i])
         IN IF path # "done"
            THEN [config |-> cfg2, attempts |-> <<Attempt(name, path)>>]
            ELSE LET rest == ImportSelected(sel, i + 1, fs, cfg2, fails)
                 IN [rest EXCEPT !.attempts = <<Attempt(name, path)>> \o @]

\* whether the loop of OnOk ran to its end
AllDone(sel, tried) ==
    /\ Len(tried) = Len(sel)
    /\ \A i \in 1..Len(tried) : tried[i].path = "done"

\* the text of the message box OnOk shows, "" when it shows none
OnOkMessage(tried, what) ==
    IF tried # <<>> /\ tried[Len(tried)].path # "done"
    THEN "Could not " \o what \o " preset" ELSE ""

\* Who ends the modal loop with wxID_OK. OnOk calls EndModal(wxID_OK) when
\* its loop ran to the end. It begins with evt.Skip(), so when it returns
\* the event goes on to the handler wxDialog has for its affirmative
\* button, which ends the modal loop with wxID_OK when the dialog is still
\* shown; the dialogs have no validator that could refuse.
DialogEndAfterOnOk(allDone) == IF allDone THEN "OnOk" ELSE "wxDialog"

\* the user presses OK in the export dialog with some rows selected
ExportOnOk ==
    /\ \E sel \in Selections :
          \E fails \in [1..Len(sel) -> ExportAnswers] :
             LET run == ExportSelected(sel, 1, files, config, fails)
             IN /\ files' = run.files
                /\ config' = run.config
                /\ attempts' = run.attempts
                /\ selection' = sel
                /\ message' = OnOkMessage(run.attempts, "export")
                /\ dialogEnd' = DialogEndAfterOnOk(AllDone(sel, run.attempts))
    /\ configBefore' = config
    /\ filesBefore' = files
    /\ op' = "ExportOnOk"
    /\ ret' = TRUE
    /\ UNCHANGED <<presentPreset, lastLoad, prevLoad, lastSave>>
    /\ UNCHANGED <<chanVars, countVars, instVars, latVars, setVars, rtVars, osVars, hostVars, otherVars>>

\* the user presses OK in the import dialog; its rows are the preset files
\* found when the dialog was built
ImportOnOk ==
    /\ \E sel \in Selections :
          /\ \A i \in 1..Len(sel) : files[sel[i]] # NoFile
          /\ \E fails \in [1..Len(sel) -> ImportAnswers] :
                LET run == ImportSelected(sel, 1, files, config, fails)
                IN /\ config' = run.config
                   /\ attempts' = run.attempts
                   /\ selection' = sel
                   /\ message' = OnOkMessage(run.attempts, "import")
                   /\ dialogEnd' = DialogEndAfterOnOk(AllDone(sel, run.attempts))
    /\ configBefore' = config
    /\ filesBefore' = files
    /\ op' = "ImportOnOk"
    /\ ret' = TRUE
    /\ UNCHANGED <<files, presentPreset, lastLoad, prevLoad, lastSave>>
    /\ UNCHANGED <<chanVars, countVars, instVars, latVars, setVars, rtVars, osVars, hostVars, otherVars>>

DialogsIdle ==
    /\ files = <<>>
    /\ selection = <<>>
    /\ attempts = <<>>
    /\ dialogEnd = ""
    /\ configBefore = <<>>
    /\ filesBefore = <<>>

(***************************************************************************)
(* The descriptor codes: AudioUnitEffectsModule::FromOSType / ToOSType     *)
(***************************************************************************)
\* An OSType is written as its four bytes, the most significant first: the
\* integers of the model checker stop at 2^31 - 1.
Word(b3, b2, b1, b0) == <<b3, b2, b1, b0>>

\* the bytes of the model: NUL, two letters, and the lead and the
\* continuation byte of the UTF-8 form of U+00E9
ByteVals == {0, 65, 66, 169, 195}
OSTypes == {Word(b3, b2, b1, b0) : b3 \in ByteVals, b2 \in ByteVals,
                                   b1 \in ByteVals, b0 \in ByteVals}

\* the characters of the model, as code points: a letter, U+00A9 and U+00E9
CodePoints == {65, 169, 233}
TextLen == 4
Texts == [1..TextLen -> CodePoints]

\* the bytes of a 32-bit value in the order of their addresses; the hosts of
\* Audio Units store the least significant byte first
BytesInMemory(word) == <<word[4], word[3], word[2], word[1]>>

IsContinuation(byte) == byte \in 128..191

\* The strict UTF-8 decoder behind wxString::FromUTF8: the code points, and
\* whether every byte belonged to a well-formed sequence.
RECURSIVE DecodeUTF8(_)
DecodeUTF8(bytes) ==
    IF bytes = <<>> THEN [ok |-> TRUE, text |-> <<>>]
    ELSE LET lead == bytes[1]
             size == IF lead < 128 THEN 1
                     ELSE IF lead \in 194..223 THEN 2
                     ELSE IF lead \in 224..239 THEN 3
                     ELSE IF lead \in 240..244 THEN 4
                     ELSE 0
         IN IF size = 0 \/ Len(bytes) < size
                \/ \E k \in 2..size : ~IsContinuation(bytes[k])
            THEN [ok |-> FALSE, text |-> <<>>]
            ELSE LET point ==
                        IF size = 1 THEN lead
                        ELSE IF size = 2 THEN (lead - 192) * 64 + (bytes[2] - 128)
                        ELSE IF size = 3
                             THEN (lead - 224) * 4096 + (bytes[2] - 128) * 64
                                  + (bytes[3] - 128)
                        ELSE (lead - 240) * 262144 + (bytes[2] - 128) * 4096
                             + (bytes[3] - 128) * 64 + (bytes[4] - 128)
                     least == IF size = 1 THEN 0 ELSE IF size = 2 THEN 128
                              ELSE IF size = 3 THEN 2048 ELSE 65536
                     rest == DecodeUTF8(SubSeq(bytes, size + 1, Len(bytes)))
                 IN IF point < least \/ point \in 55296..57343 \/ point > 1114111
                       \/ ~rest.ok
                    THEN [ok |-> FALSE, text |-> <<>>]
                    ELSE [ok |-> TRUE, text |-> <<point>> \o rest.text]

\* wxString::FromUTF8(bytes, len): the empty string when the bytes are no UTF-8
FromUTF8(bytes) == DecodeUTF8(bytes).text

\* the UTF-8 form of one character
EncodeUTF8(point) ==
    IF point < 128 THEN <<point>>
    ELSE IF point < 2048 THEN <<192 + (point \div 64), 128 + (point % 64)>>
    ELSE IF point < 65536
         THEN <<224 + (point \div 4096), 128 + ((point \div 64) % 64),
                128 + (point % 64)>>
    ELSE <<240 + (point \div 262144), 128 + ((point \div 4096) % 64),
           128 + ((point \div 64) % 64), 128 + (point % 64)>>

\* wxString::ToUTF8
RECURSIVE ToUTF8(_)
ToUTF8(text) ==
    IF text = <<>> THEN <<>> ELSE EncodeUTF8(text[1]) \o ToUTF8(Tail(text))

\* rev of FromOSType: each mask and shift moves one byte to the mirrored place
FromOSType(type) ==
    LET rev == Word(type[4], type[3], type[2], type[1])
    IN FromUTF8(BytesInMemory(rev))

\* What buf.data()[0..3] of ToOSType reads: the UTF-8 bytes, the NUL that
\* ends them, and past it whatever the memory holds.
BuffersRead(text) ==
    LET utf8 == ToUTF8(text)
    IN IF Len(utf8) >= 4 THEN {SubSeq(utf8, 1, 4)}
       ELSE {utf8 \o <<0>> \o past :
                past \in [1..(3 - Len(utf8)) -> ByteVals]}

\* rev of ToOSType from the four bytes read
ToOSType(buf) == Word(buf[1], buf[2], buf[3], buf[4])

\* the conversions applied to one input
MaxConversions == 2

FromOSTypeStep ==
    /\ Len(osDone) < MaxConversions
    /\ osInput.kind = "type" \/ osDone # <<>>
    /\ osText' = FromOSType(osType)
    /\ osDone' = Append(osDone, "FromOSType")
    /\ op' = "FromOSType"
    /\ ret' = TRUE
    /\ UNCHANGED <<osInput, osType>>
    /\ UNCHANGED <<chanVars, countVars, instVars, setVars, rtVars, latVars, presetVars,
                   dialogVars, hostVars, otherVars>>

ToOSTypeStep ==
    /\ Len(osDone) < MaxConversions
    /\ osInput.kind = "text" \/ osDone # <<>>
    /\ \E buf \in BuffersRead(osText) : osType' = ToOSType(buf)
    /\ osDone' = Append(osDone, "ToOSType")
    /\ op' = "ToOSType"
    /\ ret' = TRUE
    /\ UNCHANGED <<osInput, osText>>
    /\ UNCHANGED <<chanVars, countVars, instVars, setVars, rtVars, latVars, presetVars,
                   dialogVars, hostVars, otherVars>>

NoWord == Word(0, 0, 0, 0)

CodesIdle ==
    /\ osInput = [kind |-> "-"]
    /\ osType = NoWord
    /\ osText = <<>>
    /\ osDone = <<>>

(***************************************************************************)
(* Initial states and specifications                                       *)
(***************************************************************************)
\* the values the variables of a part keep in the specifications of the others
ChannelsIdle ==
    /\ chanInfo = <<>>
    /\ chanQuery = "ok"
    /\ chanPrev = <<>>

InstanceIdle ==
    /\ mSampleRate = 44100
    /\ mUnitInitialized = FALSE
    /\ unitInitialized = FALSE
    /\ mReady = FALSE
    /\ ioAllocated = FALSE
    /\ renderCallbackSet = FALSE
    /\ mLatencyDone = FALSE
    /\ mSampleTime = 0
    /\ lastAccept = NoAnswers
    /\ prevInitialized = FALSE
    /\ lastLen = 0
    /\ lastRenderOk = TRUE
    /\ producedSum = 0

SettingsIdle ==
    /\ mParameters = <<>>
    /\ unitValue = <<>>
    /\ paramMode = <<>>
    /\ settings = <<>>
    /\ trail = "-"
    /\ fetchedEmpty = FALSE
    /\ prevFetch = <<>>
    /\ prevUnit = <<>>

RealtimeIdle ==
    /\ mBlockSize = 0
    /\ mSlaves = <<>>
    /\ mMasterIn = NoBuffers
    /\ mMasterOut = NoBuffers
    /\ mNumSamples = 0
    /\ pending = <<>>
    /\ audioPc = "off"
    /\ calls = <<>>
    /\ cycleIns = NoCycle
    /\ passIn = <<>>
    /\ cycleMaster = <<>>
    /\ staleRender = FALSE
    /\ lastNotified = <<>>

LatencyIdle ==
    /\ mUseLatency = FALSE
    /\ unitLatency = 0
    /\ sessionOpen = FALSE
    /\ latencyLog = <<>>

(***************************************************************************)
(* PendingTracks (lib-track/PendingTracks.h)                               *)
(*                                                                         *)
(* The header declares the class and states the contract of each member;   *)
(* the members are defined in a file the repository does not carry here.   *)
(* The handlers below do what the header's comments say they do.  A track  *)
(* is its TrackId, its content and whether it is a pending object; the     *)
(* track list holds the content of each actual track, by TrackId.          *)
(***************************************************************************)
\* most actual tracks a project holds
MaxTracks == 2
\* most pending tracks registered at a time
MaxPendingTracks == 2

\* what a track holds
Contents == {0, 1}

\* "Pending tracks will have an unassigned TrackId"
UnassignedId == 0

Track(id, content, isPending) == [id |-> id, content |-> content, pending |-> isPending]

\* the actual track of the project with this TrackId
ActualTrack(tracks, id) == Track(id, tracks[id], FALSE)

\* the pending changed tracks registered for the TrackId of the given track
RegisteredFor(updates, track) ==
    {i \in DOMAIN updates :
        updates[i].id = track.id /\ updates[i].id # UnassignedId}

\* "Find anything registered with TrackList::RegisterPendingChangedTrack and
\* not yet cleared or applied; if no such exists, return the given track"
SubstitutePendingChangedTrack(updates, track) ==
    IF RegisteredFor(updates, track) = {} THEN track
    ELSE updates[CHOOSE i \in RegisteredFor(updates, track) : TRUE]

\* "Change the state of the project": each pending changed track replaces the
\* actual track of its TrackId, each pending new track follows the actual
\* tracks, in the sequence they were added
RECURSIVE TracksAfterApply(_, _, _)
TracksAfterApply(tracks, updates, i) ==
    IF i > Len(updates) THEN tracks
    ELSE TracksAfterApply(
             IF updates[i].id = UnassignedId THEN Append(tracks, updates[i].content)
             ELSE [tracks EXCEPT ![updates[i].id] = updates[i].content],
             updates, i + 1)

\* a slip that keeps the pending tracks when the project stayed as it was
ClearsOnlyWhenChanged(updates, changed) == IF changed THEN <<>> ELSE updates

\* "Will always clear the pending updates"
PendingAfterApply(updates, changed) == <<>>

TracksKept ==
    /\ tracksBefore' = mTracks
    /\ UNCHANGED <<chanVars, countVars, instVars, setVars, rtVars, latVars, presetVars,
                   dialogVars, osVars, hostVars, threadVars, ownerVars>>

\* "Start a deferred update of the project.  The return value is a duplicate
\* of the given track.  Pending track will have the same TrackId as the
\* actual."
RegisterPendingChangedTrack ==
    /\ Len(mPendingUpdates) < MaxPendingTracks
    /\ \E id \in DOMAIN mTracks :
          /\ RegisteredFor(mPendingUpdates, ActualTrack(mTracks, id)) = {}
          /\ mPendingUpdates' = Append(mPendingUpdates, Track(id, mTracks[id], TRUE))
    /\ op' = "RegisterPendingChangedTrack"
    /\ ret' = TRUE
    /\ UNCHANGED <<mTracks, lastSubstitute>>
    /\ TracksKept

\* "Like RegisterPendingChangedTrack, but for a list of new tracks":  here a
\* list of one track
RegisterPendingNewTracks ==
    /\ Len(mPendingUpdates) < MaxPendingTracks
    /\ Len(mTracks) + Cardinality({i \in DOMAIN mPendingUpdates :
                                      mPendingUpdates[i].id = UnassignedId}) < MaxTracks
    /\ \E content \in Contents :
          mPendingUpdates' = Append(mPendingUpdates, Track(UnassignedId, content, TRUE))
    /\ op' = "RegisterPendingNewTracks"
    /\ ret' = TRUE
    /\ UNCHANGED <<mTracks, lastSubstitute>>
    /\ TracksKept

\* "the returned object can accumulate other changes for a deferred push"
ChangePendingTrack ==
    /\ \E i \in DOMAIN mPendingUpdates, content \in Contents :
          /\ content # mPendingUpdates[i].content
          /\ mPendingUpdates' = [mPendingUpdates EXCEPT ![i].content = content]
    /\ op' = "ChangePendingTrack"
    /\ ret' = TRUE
    /\ UNCHANGED <<mTracks, lastSubstitute>>
    /\ TracksKept

\* "there may be other direct changes to the project"
ChangeTrack ==
    /\ \E id \in DOMAIN mTracks, content \in Contents :
          /\ content # mTracks[id]
          /\ mTracks' = [mTracks EXCEPT ![id] = content]
    /\ op' = "ChangeTrack"
    /\ ret' = TRUE
    /\ UNCHANGED <<mPendingUpdates, lastSubstitute>>
    /\ TracksKept

\* "Forget pending track additions and changes"
ClearPendingTracks ==
    /\ mPendingUpdates' = <<>>
    /\ op' = "ClearPendingTracks"
    /\ ret' = TRUE
    /\ UNCHANGED <<mTracks, lastSubstitute>>
    /\ TracksKept

\* "Will always clear the pending updates.  Return true if the state of the
\* track list really did change."
ApplyPendingTracks ==
    /\ mTracks' = TracksAfterApply(mTracks, mPendingUpdates, 1)
    /\ ret' = (mTracks' # mTracks)
    /\ mPendingUpdates' = PendingAfterApply(mPendingUpdates, ret')
    /\ op' = "ApplyPendingTracks"
    /\ UNCHANGED lastSubstitute
    /\ TracksKept

\* SubstitutePendingChangedTrack handed an actual track of the project
SubstituteStep ==
    /\ \E id \in DOMAIN mTracks :
          lastSubstitute' =
             [given |-> ActualTrack(mTracks, id),
              returned |-> SubstitutePendingChangedTrack(
                               mPendingUpdates, ActualTrack(mTracks, id)),
              after |-> op]
    /\ op' = "SubstitutePendingChangedTrack"
    /\ ret' = TRUE
    /\ UNCHANGED <<mTracks, mPendingUpdates>>
    /\ TracksKept

NoSubstitute == [given |-> Track(UnassignedId, 0, FALSE),
                 returned |-> Track(UnassignedId, 0, FALSE),
                 after |-> "-"]

TracksIdle ==
    /\ mTracks = <<>>
    /\ mPendingUpdates = <<>>
    /\ tracksBefore = <<>>
    /\ lastSubstitute = NoSubstitute

(***************************************************************************)
(* AudioUnitEffect::SetHost                                                *)
(*                                                                         *)
(* Each SetHost runs on an instance fresh from its constructor: the host's *)
(* own instance of the effect, the one made for registration (no host) or  *)
(* a slave (no host, a master).  The private configuration outlives the    *)
(* instances.                                                              *)
(***************************************************************************)
\* mHost->GetFactoryDefaultsGroup(), mHost->GetCurrentSettingsGroup()
FactoryDefaultsGroup == <<"FactoryDefaults">>
CurrentSettingsGroup == <<"CurrentSettings">>
HostGroups == {FactoryDefaultsGroup, CurrentSettingsGroup}

InstanceKinds == {"hosted", "registration", "slave"}

\* a slip that saves the factory defaults whatever the flag says
SavesAlways(haveDefaults) == TRUE

\* if (!haveDefaults)
SavesDefaults(haveDefaults) == ~haveDefaults

\* SavePreset(GetFactoryDefaultsGroup()) and the setting of "Initialized",
\* which does not look at what SavePreset returned
ConfigAfterDefaults(cfg, value, serial, writeOk) ==
    IF SavesDefaults(cfg[FactoryDefaultsGroup].Initialized)
    THEN [ConfigAfterSave(cfg, FactoryDefaultsGroup,
                          ClassInfo(PresetNameAfterSave(FactoryDefaultsGroup), value),
                          serial, writeOk)
             EXCEPT ![FactoryDefaultsGroup].Initialized = TRUE]
    ELSE cfg

\* LoadPreset(group) as SetHost runs it: the configuration, the unit's values
\* and its present preset afterwards, the way taken and the result
LoadOutcome(cfg, group, answers, value, preset) ==
    LET legacy == cfg[group].Parameters
        saved == SaveResult(answers.serial, answers.writeOk)
        path == LoadPath(cfg, group, answers.autoOk, saved, answers.dataOk,
                         answers.accept)
        saves == path \in {"legacyUnsaved", "migrated"}
        content == PropertyList(wxBase64Decode(cfg[group].Data))
        valueSet == IF saves THEN legacy.value ELSE value
        name == IF saves THEN PresetNameAfterSave(group) ELSE preset
        cfgSaved == IF saves
                    THEN ConfigAfterSave(cfg, group, ClassInfo(name, valueSet),
                                         answers.serial, answers.writeOk)
                    ELSE cfg
    IN [config |-> IF path = "migrated" THEN RemoveLegacy(cfgSaved, group)
                   ELSE cfgSaved,
        value |-> IF path = "loaded" THEN content.value ELSE valueSet,
        preset |-> IF path = "loaded" THEN content.name ELSE name,
        path |-> path,
        ret |-> LoadResult(path)]

\* the calls SetHost makes on the configuration, in order
ConfigCalls(kind, haveDefaults) ==
    IF kind # "hosted" THEN <<>>
    ELSE <<Plain("GetSharedConfig", 0), Plain("GetSharedConfig", 0),
           Plain("GetPrivateConfig", 0)>>
            \o (IF SavesDefaults(haveDefaults)
                THEN <<Plain("SavePreset", 0), Plain("SetPrivateConfig", 0)>>
                ELSE <<>>)
            \o <<Plain("LoadPreset", 0)>>

\* the answers to a call: the given ones when the call is made, and one that
\* stands for no answer when it is not
Asked(made, answers, none) == IF made THEN answers ELSE {none}

\* SetHost(host) on a new instance of the given kind.  unitOk: a unit could
\* be created; listenerOk: the listener was created and took every event.
\* SetHost does not look at what SetRateAndChannels returns, so one rejection
\* stands for all; the unit declares no channel table and asks for
\* MaxBlockLen frames a slice.
SetHost ==
    /\ \E kind \in InstanceKinds, unitOk \in BOOLEAN :
       \E query \in {"ok"},
          acc \in Asked(unitOk, {NoAnswers, [NoAnswers EXCEPT !.initialize = FALSE]},
                        NoAnswers),
          size \in {MaxBlockLen},
          use \in Asked(unitOk /\ kind = "hosted", BOOLEAN, TRUE),
          saveAnswers \in Asked(unitOk /\ kind = "hosted"
                                   /\ SavesDefaults(config[FactoryDefaultsGroup].Initialized),
                                SaveAnswers, AllOk),
          loadAnswers \in Asked(unitOk /\ kind = "hosted", LoadAnswers, AllOk),
          listenerOk \in Asked(unitOk /\ kind # "slave", BOOLEAN, TRUE) :
          LET counts == ChannelCounts(mAudioIns, mAudioOuts, query, chanInfo)
              accepted == RateAndChannelsAccepted(acc, counts[1], counts[2])
              hosted == unitOk /\ kind = "hosted"
              preset == IF hosted /\ SavesDefaults(config[FactoryDefaultsGroup].Initialized)
                        THEN PresetNameAfterSave(FactoryDefaultsGroup) ELSE ""
              cfgDefaults == ConfigAfterDefaults(config, DefaultValues,
                                                 saveAnswers.serial, saveAnswers.writeOk)
              loaded == LoadOutcome(cfgDefaults, CurrentSettingsGroup, loadAnswers,
                                    DefaultValues, preset)
          IN /\ mHost' = IF kind = "hosted" THEN "host" ELSE "NULL"
             /\ mMaster' = IF kind = "slave" THEN "master" ELSE "NULL"
             /\ mSampleRate' = 44100
             /\ mAudioIns' = IF unitOk THEN counts[1] ELSE mAudioIns
             /\ mAudioOuts' = IF unitOk THEN counts[2] ELSE mAudioOuts
             /\ chanQuery' = IF unitOk THEN query ELSE chanQuery
             /\ chanPrev' = IF unitOk THEN <<mAudioIns, mAudioOuts>> ELSE chanPrev
             /\ mUnitInitialized' = (unitOk /\ FlagAfterSetRate(FALSE, accepted))
             /\ unitInitialized' = (unitOk /\ NativeAfterSetRate(FALSE, FALSE, accepted))
             /\ lastAccept' = IF unitOk THEN acc ELSE NoAnswers
             /\ mBlockSize' = IF unitOk THEN size ELSE mBlockSize
             /\ mUseLatency' = IF hosted THEN use ELSE mUseLatency
             /\ config' = IF hosted THEN loaded.config ELSE config
             /\ unitValue' = IF hosted THEN loaded.value ELSE DefaultValues
             /\ presentPreset' = IF hosted THEN loaded.preset ELSE ""
             /\ lastLoad' = IF hosted
                            THEN [group |-> CurrentSettingsGroup, path |-> loaded.path,
                                  answers |-> loadAnswers, blob |-> NoBytes]
                            ELSE NoLoad
             /\ calls' = IF unitOk
                         THEN ConfigCalls(kind, config[FactoryDefaultsGroup].Initialized)
                         ELSE <<>>
             /\ ret' = (unitOk /\ (kind = "slave" \/ listenerOk))
    /\ message' = ""
    /\ prevLoad' = NoLoad
    /\ lastSave' = NoSave
    /\ prevInitialized' = FALSE
    /\ op' = "SetHost"
    /\ UNCHANGED <<chanInfo, mReady, ioAllocated, renderCallbackSet, mLatencyDone,
                   mSampleTime, lastLen, lastRenderOk, producedSum>>
    /\ UNCHANGED <<mParameters, paramMode, settings, trail, fetchedEmpty, prevFetch,
                   prevUnit>>
    /\ UNCHANGED <<mSlaves, mMasterIn, mMasterOut, mNumSamples, pending, audioPc,
                   cycleIns, passIn, cycleMaster, staleRender, lastNotified>>
    /\ UNCHANGED <<unitLatency, sessionOpen, latencyLog>>
    /\ UNCHANGED <<dialogVars, osVars, hostVars, threadVars, trackVars>>

ThreadsIdle == rendering = NotRendering

\* an instance of the host's: it has a host and no master
OwnersIdle == mHost = "host" /\ mMaster = "NULL"

OtherIdle == ThreadsIdle /\ TracksIdle /\ OwnersIdle

ExtIdle ==
    /\ LatencyIdle
    /\ PresetsIdle
    /\ DialogsIdle
    /\ CodesIdle

\* an instance fresh from its constructor, before SetHost calls GetChannelCounts:
\* the constructor sets neither mAudioIns nor mAudioOuts
InitChannels ==
    /\ ExtIdle
    /\ OtherIdle
    /\ hostGroups = StereoGroups
    /\ mNumChannels = Unset
    /\ chanInfo \in ChanTables
    /\ chanQuery = "none"
    /\ chanPrev = <<>>
    /\ \E unset \in UnsetCounts :
          /\ mAudioIns = unset[1]
          /\ mAudioOuts = unset[2]
    /\ InstanceIdle
    /\ SettingsIdle
    /\ RealtimeIdle
    /\ op = "constructed"
    /\ ret = TRUE

NextChannels == GetChannelCounts

SpecChannels == InitChannels /\ [][NextChannels]_vars

\* the same instance when the host asks for its type
NextTypes ==
    \/ GetChannelCounts
    \/ GetType
    \/ SupportsRealtime

\* The members hold 0 and 0 when SetHost begins, the one pair of which GetType
\* returns EffectTypeNone, and the table declares wildcards, no channel, mono
\* and stereo: an entry of 0 and 0 stands for the ones that match no pattern.
InitTypes ==
    /\ InitChannels
    /\ mAudioIns = 0
    /\ mAudioOuts = 0
    /\ \A i \in DOMAIN chanInfo :
          /\ chanInfo[i].inChannels \in {-1, 0, 1, 2}
          /\ chanInfo[i].outChannels \in {-1, 0, 1, 2}

SpecTypes == InitTypes /\ [][NextTypes]_vars

\* the pairs GetChannelCounts can leave in mAudioIns, mAudioOuts
NegotiatedCounts ==
    {ChannelCounts(2, 2, query, info) : query \in ChanQueries, info \in ChanTables}

\* an instance in SetHost, after mSampleRate = 44100, the creation of the unit
\* and GetChannelCounts; the constructor sets mUnitInitialized and leaves
\* mReady, mLatencyDone and mTimeStamp unset
Init ==
    /\ ChannelsIdle
    /\ ExtIdle
    /\ OtherIdle
    /\ hostGroups = StereoGroups
    /\ mNumChannels = Unset
    /\ \E counts \in NegotiatedCounts :
          /\ mAudioIns = counts[1]
          /\ mAudioOuts = counts[2]
    /\ mSampleRate = 44100
    /\ mUnitInitialized = FALSE
    /\ unitInitialized = FALSE
    /\ mReady \in BOOLEAN
    /\ ioAllocated = FALSE
    /\ renderCallbackSet = FALSE
    /\ mLatencyDone \in BOOLEAN
    /\ mSampleTime \in {0, 1}
    /\ lastAccept = NoAnswers
    /\ prevInitialized = FALSE
    /\ lastLen = 0
    /\ lastRenderOk = TRUE
    /\ producedSum = 0
    /\ SettingsIdle
    /\ RealtimeIdle
    /\ op = "GetChannelCounts"
    /\ ret = TRUE

Next ==
    \/ SetRateAndChannels
    \/ SetSampleRate
    \/ ProcessInitialize
    \/ ProcessFinalize
    \/ ProcessBlock

Spec == Init /\ [][Next]_vars

\* a wrapper whose unit was created (CreateAudioUnit read the parameter list,
\* or found none) and whose settings object is new
InitSettings ==
    /\ ChannelsIdle
    /\ ExtIdle
    /\ OtherIdle
    /\ hostGroups = StereoGroups
    /\ mNumChannels = Unset
    /\ mAudioIns = 2
    /\ mAudioOuts = 2
    /\ InstanceIdle
    /\ RealtimeIdle
    /\ mParameters \in {<<>>, [i \in 1 .. NumParams |-> i]}
    /\ unitValue \in [ParamIDs -> ParamValues]
    /\ paramMode \in [ParamIDs -> ParamModes]
    /\ settings = EmptyMap
    /\ trail = "-"
    /\ fetchedEmpty = FALSE
    /\ prevFetch = EmptyMap
    /\ prevUnit = unitValue
    /\ op = "CreateAudioUnit"
    /\ ret = TRUE

NextSettings ==
    \/ FetchSettings
    \/ StoreSettings
    \/ PluginChangesValue
    \/ PluginChangesMode

SpecSettings == InitSettings /\ [][NextSettings]_vars

\* A master after SetHost, which set mSampleRate and mBlockSize, negotiated
\* the channel counts of an effect that processes (inputs and outputs: the
\* only type SupportsRealtime accepts) and ignored what SetRateAndChannels
\* returned. The constructor leaves mReady, mLatencyDone, mTimeStamp and
\* mNumSamples unset; mNumSamples is not read before RealtimeProcessStart has
\* assigned it.
InitMaster ==
    /\ ChannelsIdle
    /\ ExtIdle
    /\ mAudioIns = 2
    /\ mAudioOuts = 1
    /\ mSampleRate = 44100
    /\ mUnitInitialized \in BOOLEAN
    /\ unitInitialized = mUnitInitialized
    /\ mReady \in BOOLEAN
    /\ ioAllocated = FALSE
    /\ renderCallbackSet = FALSE
    /\ mLatencyDone \in BOOLEAN
    /\ mSampleTime \in {0, 1}
    /\ lastAccept = NoAnswers
    /\ prevInitialized = FALSE
    /\ lastLen = 0
    /\ lastRenderOk = TRUE
    /\ producedSum = 0
    /\ paramMode = [id \in ParamIDs |-> "ok"]
    /\ settings = EmptyMap
    /\ trail = "-"
    /\ fetchedEmpty = FALSE
    /\ prevFetch = EmptyMap
    /\ prevUnit = DefaultValues
    /\ mSlaves = <<>>
    /\ mMasterIn = NoBuffers
    /\ mMasterOut = NoBuffers
    /\ mNumSamples = Unset
    /\ pending = <<>>
    /\ audioPc = "off"
    /\ calls = <<>>
    /\ cycleIns = NoCycle
    /\ passIn = <<>>
    /\ cycleMaster = DefaultValues
    /\ staleRender = FALSE
    /\ lastNotified = NotNotified
    /\ op = "SetHost"
    /\ ret = TRUE

\* a master whose unit declares no parameter: no notification is ever raised
InitRealtime ==
    /\ InitMaster
    /\ OtherIdle
    /\ hostGroups = StereoGroups
    /\ mNumChannels = Unset
    /\ mBlockSize = MaxBlockLen
    /\ mParameters = <<>>
    /\ unitValue = DefaultValues

NextRealtime ==
    \/ RealtimeInitialize
    \/ RealtimeAddProcessor
    \/ RealtimeFinalize
    \/ RealtimeSuspend
    \/ RealtimeResume
    \/ RealtimeProcessStart
    \/ RealtimeProcess
    \/ RealtimeProcessEnd
    \/ LatencyPropertyChange

SpecRealtime == InitRealtime /\ [][NextRealtime]_vars

\* a master whose unit takes one frame a slice and declares a parameter,
\* which SetHost registered with the listener it created
InitParameters ==
    /\ InitMaster
    /\ OtherIdle
    /\ hostGroups = StereoGroups
    /\ mNumChannels = Unset
    /\ mBlockSize = 1
    /\ mParameters = <<1>>
    /\ unitValue \in {value \in [ParamIDs -> ParamValues] :
                         \A id \in ParamIDs \ {1} : value[id] = DefaultValues[id]}

NextParameters ==
    \/ NextRealtime
    \/ ParameterValueChange
    \/ EventListener

SpecParameters == InitParameters /\ [][NextParameters]_vars

\* the same master when the steps of the audio thread and of the run loop
\* interleave: the audio thread makes one call at a time, the host does not
\* set up or tear down while a block is rendered, and nothing holds back the
\* run loop
NextThreads ==
    \/ rendering = NotRendering /\ RealtimeInitialize
    \/ rendering = NotRendering /\ RealtimeAddProcessor
    \/ rendering = NotRendering /\ RealtimeFinalize
    \/ rendering = NotRendering /\ RealtimeProcessStart
    \/ RealtimeProcessCall
    \/ RealtimeProcessReturn
    \/ rendering = NotRendering /\ RealtimeProcessEnd
    \/ ParameterValueChange
    \/ EventListener

SpecThreads == InitParameters /\ [][NextThreads]_vars

\* a project of one or two tracks with nothing pending
InitTracks ==
    /\ ChannelsIdle
    /\ InstanceIdle
    /\ SettingsIdle
    /\ RealtimeIdle
    /\ ExtIdle
    /\ ThreadsIdle
    /\ OwnersIdle
    /\ hostGroups = StereoGroups
    /\ mNumChannels = Unset
    /\ mAudioIns = 0
    /\ mAudioOuts = 0
    /\ \E count \in 1 .. 2 : mTracks \in [1 .. count -> Contents]
    /\ mPendingUpdates = <<>>
    /\ tracksBefore = mTracks
    /\ lastSubstitute = NoSubstitute
    /\ op = "-"
    /\ ret = TRUE

NextTracks ==
    \/ RegisterPendingChangedTrack
    \/ RegisterPendingNewTracks
    \/ ChangePendingTrack
    \/ ChangeTrack
    \/ ClearPendingTracks
    \/ ApplyPendingTracks
    \/ SubstituteStep

SpecTracks == InitTracks /\ [][NextTracks]_vars

\* the same master when the host plays a mono group at 48000 and a stereo
\* group at 44100
InitGroups ==
    /\ InitMaster
    /\ OtherIdle
    /\ hostGroups = ChannelGroups
    /\ mNumChannels = Unset
    /\ mBlockSize = MaxBlockLen
    /\ mParameters = <<>>
    /\ unitValue = DefaultValues

SpecGroups == InitGroups /\ [][NextRealtime]_vars

\* an instance after SetHost, which read the shared "UseLatency" option, on a
\* stereo unit; the constructor leaves mLatencyDone unset
InitLatency ==
    /\ ChannelsIdle
    /\ mAudioIns = 2
    /\ mAudioOuts = 2
    /\ mSampleRate = 44100
    /\ mUnitInitialized = FALSE
    /\ unitInitialized = FALSE
    /\ mReady = FALSE
    /\ ioAllocated = FALSE
    /\ renderCallbackSet = FALSE
    /\ mLatencyDone \in BOOLEAN
    /\ mSampleTime = 0
    /\ lastAccept = NoAnswers
    /\ prevInitialized = FALSE
    /\ lastLen = 0
    /\ lastRenderOk = TRUE
    /\ producedSum = 0
    /\ SettingsIdle
    /\ RealtimeIdle
    /\ mUseLatency \in BOOLEAN
    /\ unitLatency \in Latencies
    /\ sessionOpen = FALSE
    /\ latencyLog = <<>>
    /\ PresetsIdle
    /\ DialogsIdle
    /\ CodesIdle
    /\ OtherIdle
    /\ hostGroups = StereoGroups
    /\ mNumChannels = Unset
    /\ op = "SetHost"
    /\ ret = TRUE

NextLatency ==
    \/ SetSampleRate
    \/ ProcessInitialize
    \/ ProcessFinalize
    \/ GetLatency
    \/ PluginChangesLatency

SpecLatency == InitLatency /\ [][NextLatency]_vars

\* what the "Data" key of a preset can hold: nothing, a text that is no
\* base64, bytes that are no property list, or a class info that SavePreset
\* stored or the import dialog copied from a file, in either format and
\* under the name the file's property list carries
DataTexts ==
    {NoText, OtherText, wxBase64Encode(Junk)}
        \cup {wxBase64Encode(Bytes(format, name, [DefaultValues EXCEPT ![1] = 1])) :
                 format \in PListFormats, name \in PresetNames}

\* what its "Parameters" key can hold
LegacyTexts ==
    {NoLegacy, Legacy(FALSE, DefaultValues), Legacy(TRUE, [DefaultValues EXCEPT ![1] = 1])}

\* a master after SetHost, with realtime playback off or set up with one of
\* the given lists of slaves, and a configuration whose preset "A" holds any
\* of the above
InitPresetsWith(slaveLists) ==
    /\ ChannelsIdle
    /\ InstanceIdle
    /\ LatencyIdle
    /\ mAudioIns = 2
    /\ mAudioOuts = 2
    /\ mParameters = <<1>>
    /\ unitValue = DefaultValues
    /\ paramMode = [id \in ParamIDs |-> "ok"]
    /\ settings = EmptyMap
    /\ trail = "-"
    /\ fetchedEmpty = FALSE
    /\ prevFetch = EmptyMap
    /\ prevUnit = DefaultValues
    /\ mBlockSize = 1
    /\ \E slaves \in slaveLists :
          /\ mSlaves = slaves
          /\ audioPc = IF slaves = <<>> THEN "off" ELSE "idle"
          /\ mMasterIn = IF slaves = <<>> THEN NoBuffers
                         ELSE FilledBuffers(mAudioIns, mBlockSize, 0)
          /\ mMasterOut = IF slaves = <<>> THEN NoBuffers
                          ELSE FilledBuffers(mAudioOuts, mBlockSize, 0)
    /\ mNumSamples = Unset
    /\ pending = <<>>
    /\ calls = <<>>
    /\ cycleIns = NoCycle
    /\ passIn = <<>>
    /\ cycleMaster = DefaultValues
    /\ staleRender = FALSE
    /\ lastNotified = NotNotified
    /\ \E legacy \in LegacyTexts, data \in DataTexts :
          config = [group \in Groups |->
                       IF group = UserPresetsGroup("A")
                       THEN [Parameters |-> legacy, Data |-> data]
                       ELSE [Parameters |-> NoLegacy, Data |-> NoText]]
    /\ presentPreset = ""
    /\ message = ""
    /\ lastLoad = NoLoad
    /\ prevLoad = NoLoad
    /\ lastSave = NoSave
    /\ DialogsIdle
    /\ CodesIdle
    /\ OtherIdle
    /\ hostGroups = StereoGroups
    /\ mNumChannels = Unset
    /\ op = "SetHost"
    /\ ret = TRUE

\* a slave RealtimeAddProcessor added for a stereo group, seeded with value
StereoSlave(value) == ConfigureSlave(NewSlave(value, 2, 2), 2, 44100)

\* playback off, or set up with one slave
InitPresets == InitPresetsWith({<<>>, <<StereoSlave(DefaultValues)>>})

\* playback set up with two slaves
InitTwoSlaves ==
    InitPresetsWith({<<StereoSlave(DefaultValues), StereoSlave(DefaultValues)>>})

NextPresets ==
    \/ LoadPreset
    \/ SavePreset
    \/ PluginChangesState

SpecPresets == InitPresets /\ [][NextPresets]_vars

\* the decoding of presets, by the effect and by the wrapper
NextDecode ==
    \/ LoadPreset
    \/ InterpretBlob

SpecDecode == InitPresets /\ [][NextDecode]_vars

\* presets loaded while two groups play
NextTwoSlaves ==
    \/ LoadPreset
    \/ PluginChangesState

SpecTwoSlaves == InitTwoSlaves /\ [][NextTwoSlaves]_vars

\* the encoding of presets by the wrapper
NextEncode ==
    \/ MakeBlob
    \/ PluginChangesState

SpecEncode == InitPresets /\ [][NextEncode]_vars

\* what the "Data" key of a preset can hold when the export dialog opens
ExportTexts == DataTexts \cup {wxBase64Encode(BinaryJunk)}

\* what a preset file can hold when the import dialog opens
ImportFiles ==
    {NoFile, NoBytes, Bytes("xml", "A", [DefaultValues EXCEPT ![1] = 2])}

\* an effect with the user presets "A" and "B" and their files in the user's
\* preset directory
InitDialogs ==
    /\ ChannelsIdle
    /\ InstanceIdle
    /\ SettingsIdle
    /\ RealtimeIdle
    /\ LatencyIdle
    /\ mAudioIns = 2
    /\ mAudioOuts = 2
    /\ \E dataA \in ExportTexts, dataB \in {NoText, OtherText} :
          config = [group \in Groups |->
                       [Parameters |-> NoLegacy,
                        Data |-> IF group = UserPresetsGroup("A") THEN dataA ELSE dataB]]
    /\ \E fileA \in ImportFiles :
          files = [name \in PresetNames |-> IF name = "A" THEN fileA ELSE NoFile]
    /\ presentPreset = ""
    /\ message = ""
    /\ lastLoad = NoLoad
    /\ prevLoad = NoLoad
    /\ lastSave = NoSave
    /\ selection = <<>>
    /\ attempts = <<>>
    /\ dialogEnd = ""
    /\ configBefore = config
    /\ filesBefore = files
    /\ CodesIdle
    /\ OtherIdle
    /\ hostGroups = StereoGroups
    /\ mNumChannels = Unset
    /\ op = "SetHost"
    /\ ret = TRUE

NextDialogs == ExportOnOk \/ ImportOnOk
SpecDialogs == InitDialogs /\ [][NextDialogs]_vars

\* an identifier found by LoadAudioUnitsOfType, or a field of a plug-in path
InitCodes ==
    /\ ChannelsIdle
    /\ InstanceIdle
    /\ SettingsIdle
    /\ RealtimeIdle
    /\ LatencyIdle
    /\ PresetsIdle
    /\ DialogsIdle
    /\ OtherIdle
    /\ hostGroups = StereoGroups
    /\ mNumChannels = Unset
    /\ mAudioIns = 0
    /\ mAudioOuts = 0
    /\ \/ \E type \in OSTypes :
             /\ osInput = [kind |-> "type", type |-> type]
             /\ osType = type
             /\ osText = <<>>
       \/ \E text \in Texts :
             /\ osInput = [kind |-> "text", text |-> text]
             /\ osType = NoWord
             /\ osText = text
    /\ osDone = <<>>
    /\ op = "-"
    /\ ret = TRUE

NextCodes == FromOSTypeStep \/ ToOSTypeStep
SpecCodes == InitCodes /\ [][NextCodes]_vars

\* the channel pairs of the instances below: mono, and two inputs with one
\* output
ChosenCounts == {<<1, 1>>, <<2, 1>>}

\* What happens to an instance. The instances below serve one use each: the
\* host processes a track with it, or plays a group through it, or its unit
\* raises parameter events, or the user works on its presets;
\* SetSampleRate, SetChannelCount and SetBlockSize come at any time.
Processes == hostGroups = {} /\ config = <<>> /\ mParameters = <<>>
Plays == hostGroups # {}
Listens == hostGroups = {} /\ config = <<>> /\ mParameters # <<>>
ManagesPresets == config # <<>>

\* the configuration of an effect with a user preset "A"
OnePreset ==
    [group \in Groups |->
        [Parameters |-> NoLegacy,
         Data |-> IF group = UserPresetsGroup("A")
                  THEN wxBase64Encode(Bytes("bplist", "A", [DefaultValues EXCEPT ![1] = 1]))
                  ELSE NoText]]

\* An instance after SetHost, which chose one of the pairs. Realtime
\* playback is off where the host processes or is about to play, and is set
\* up with one slave where events are raised or presets are worked on; a
\* parameter is registered with the listener in these two.
InitCounts ==
    /\ ChannelsIdle
    /\ InstanceIdle
    /\ LatencyIdle
    /\ DialogsIdle
    /\ CodesIdle
    /\ \E counts \in ChosenCounts :
          /\ mAudioIns = counts[1]
          /\ mAudioOuts = counts[2]
    /\ mBlockSize = 1
    /\ \E use \in {"process", "play", "listen", "presets"} :
          /\ OtherIdle
          /\ hostGroups = IF use = "play" THEN StereoGroups ELSE {}
          /\ config = IF use = "presets" THEN OnePreset ELSE <<>>
          /\ mParameters = IF use \in {"listen", "presets"} THEN <<1>> ELSE <<>>
          /\ mSlaves = IF use \in {"listen", "presets"}
                       THEN <<ConfigureSlave(NewSlave(DefaultValues, mAudioIns, mAudioOuts),
                                             2, 44100)>>
                       ELSE <<>>
    /\ audioPc = IF mSlaves = <<>> THEN "off" ELSE "idle"
    /\ mMasterIn = IF mSlaves = <<>> THEN NoBuffers
                   ELSE FilledBuffers(mAudioIns, mBlockSize, 0)
    /\ mMasterOut = IF mSlaves = <<>> THEN NoBuffers
                    ELSE FilledBuffers(mAudioOuts, mBlockSize, 0)
    /\ unitValue = DefaultValues
    /\ paramMode = [id \in ParamIDs |-> "ok"]
    /\ settings = EmptyMap
    /\ trail = "-"
    /\ fetchedEmpty = FALSE
    /\ prevFetch = EmptyMap
    /\ prevUnit = DefaultValues
    /\ mNumSamples = Unset
    /\ pending = <<>>
    /\ calls = <<>>
    /\ cycleIns = NoCycle
    /\ passIn = <<>>
    /\ cycleMaster = DefaultValues
    /\ staleRender = FALSE
    /\ lastNotified = NotNotified
    /\ presentPreset = ""
    /\ message = ""
    /\ lastLoad = NoLoad
    /\ prevLoad = NoLoad
    /\ lastSave = NoSave
    /\ mNumChannels = Unset
    /\ op = "SetHost"
    /\ ret = TRUE

NextCounts ==
    \/ SetSampleRate
    \/ SetChannelCount
    \/ SetBlockSize
    \/ Processes /\ (ProcessInitialize \/ ProcessBlock \/ ProcessFinalize)
    \/ Plays /\ NextRealtime
    \/ Listens /\ (ParameterValueChange \/ EventListener)
    \/ ManagesPresets /\ (LoadPreset \/ SavePreset)

SpecCounts == InitCounts /\ [][NextCounts]_vars

\* What the private configuration can hold when an effect is first used or
\* used again: the flag, the blob of the factory defaults, and the current
\* settings in either format.
HostData == {NoText, wxBase64Encode(Bytes("bplist", "CurrentSettings",
                                           [DefaultValues EXCEPT ![1] = 1]))}
HostConfigs ==
    {[group \in HostGroups |->
         IF group = FactoryDefaultsGroup
         THEN [Parameters |-> NoLegacy, Data |-> factory, Initialized |-> flag]
         ELSE [Parameters |-> legacy, Data |-> data, Initialized |-> FALSE]] :
       flag \in BOOLEAN, factory \in {NoText, wxBase64Encode(Junk)},
       legacy \in LegacyTexts, data \in HostData}

\* no instance has run SetHost yet
InitHost ==
    /\ ChannelsIdle
    /\ InstanceIdle
    /\ SettingsIdle
    /\ RealtimeIdle
    /\ LatencyIdle
    /\ DialogsIdle
    /\ CodesIdle
    /\ ThreadsIdle
    /\ TracksIdle
    /\ hostGroups = StereoGroups
    /\ mNumChannels = Unset
    /\ mAudioIns = 0
    /\ mAudioOuts = 0
    /\ mHost = "NULL"
    /\ mMaster = "NULL"
    /\ config \in HostConfigs
    /\ presentPreset = ""
    /\ message = ""
    /\ lastLoad = NoLoad
    /\ prevLoad = NoLoad
    /\ lastSave = NoSave
    /\ op = "-"
    /\ ret = TRUE

NextHost == SetHost

SpecHost == InitHost /\ [][NextHost]_vars

(***************************************************************************)
(* Channel negotiation: the claims                                         *)
(***************************************************************************)
\* the eight recognised patterns, highest priority first
Priority == << <<2, 2>>, <<1, 1>>, <<1, 2>>, <<2, 1>>,
               <<0, 1>>, <<0, 2>>, <<2, 0>>, <<1, 0>> >>

Patterns == {Priority[k] : k \in 1 .. 8}

\* a declared entry with each wildcard side read as 2
Declared(ci) ==
    << IF ci.inChannels < 0 THEN 2 ELSE ci.inChannels,
       IF ci.outChannels < 0 THEN 2 ELSE ci.outChannels >>

DeclaredPairs(info) == {Declared(info[i]) : i \in 1 .. Len(info)}

IsWildcard(ci) == ci.inChannels < 0 \/ ci.outChannels < 0

\* place of a pair in the priority order, 9 for a pair that is no pattern
Rank(pair) ==
    IF pair \in Patterns THEN CHOOSE k \in 1 .. 8 : Priority[k] = pair ELSE 9

Counts == <<mAudioIns, mAudioOuts>>

Negotiated == op = "GetChannelCounts" /\ chanQuery = "ok"

\* the orderings of 1 .. n
RECURSIVE Orderings(_)
Orderings(n) ==
    IF n = 0 THEN {<<>>}
    ELSE {[i \in 1 .. n |-> IF i < k THEN p[i] ELSE IF i = k THEN n ELSE p[i - 1]] :
             p \in Orderings(n - 1), k \in 1 .. n}

\* C1: after GetChannelCounts has read the table, the chosen pair is the
\* pattern of highest priority, in the order (2,2), (1,1), (1,2), (2,1), (0,1),
\* (0,2), (2,0), (1,0), that occurs anywhere among the wildcard-resolved
\* entries of the table.
C1_HighestPriorityPattern ==
    Negotiated =>
        \A k \in 1 .. 8 :
            ( /\ Priority[k] \in DeclaredPairs(chanInfo)
              /\ \A j \in 1 .. (k - 1) : Priority[j] \notin DeclaredPairs(chanInfo) )
            => Counts = Priority[k]

\* a table whose first entry has a lower priority than its second: the second wins
C1_Witness ==
    /\ Negotiated
    /\ Len(chanInfo) = 2
    /\ Declared(chanInfo[2]) \in Patterns
    /\ Declared(chanInfo[1]) \in Patterns
    /\ Rank(Declared(chanInfo[2])) < Rank(Declared(chanInfo[1]))
    /\ Counts = Declared(chanInfo[2])

\* C2: when the size query or the data query fails, when the table is empty,
\* or when no entry resolves to one of the eight patterns, GetChannelCounts
\* leaves stereo in, stereo out.
C2_DefaultStereo ==
    op = "GetChannelCounts" =>
        ( ( \/ chanQuery \in {"noInfo", "noData"}
            \/ Len(chanInfo) = 0
            \/ DeclaredPairs(chanInfo) \cap Patterns = {} )
          => Counts = <<2, 2>> )

\* a table with entries and no pattern among them, read by an instance whose
\* counts held something else before
C2_Witness ==
    /\ Negotiated
    /\ Len(chanInfo) > 0
    /\ DeclaredPairs(chanInfo) \cap Patterns = {}
    /\ chanPrev # <<2, 2>>
    /\ Counts = <<2, 2>>

\* C3: an entry with a negative count on one side is matched with that side
\* as 2 and the other side kept, an entry negative on both sides as (2,2): the
\* pattern so obtained takes part in the choice (the chosen pair has its
\* priority or a higher one), and is the choice when the entry is alone.
C3_WildcardsResolveToStereo ==
    Negotiated =>
        \A i \in 1 .. Len(chanInfo) :
            (IsWildcard(chanInfo[i]) /\ Declared(chanInfo[i]) \in Patterns)
            => /\ Rank(Counts) <= Rank(Declared(chanInfo[i]))
               /\ Len(chanInfo) = 1 => Counts = Declared(chanInfo[i])

\* the table holding (-1,1) alone is matched as stereo in, mono out
C3_Witness ==
    /\ Negotiated
    /\ chanInfo = <<[inChannels |-> -1, outChannels |-> 1]>>
    /\ Counts = <<2, 1>>

\* C4: the pair GetChannelCounts left is the one it gives for the same table
\* from any previous counts, for the table's entries in any order, and for
\* the table with any of its entries repeated.
C4_PureFunctionOfTable ==
    Negotiated =>
        /\ \A prev \in UnsetCounts \cup {<<1, 2>>} :
              ChannelCounts(prev[1], prev[2], "ok", chanInfo) = Counts
        /\ \A p \in Orderings(Len(chanInfo)) :
              ChannelCounts(mAudioIns, mAudioOuts, "ok",
                            [i \in 1 .. Len(chanInfo) |-> chanInfo[p[i]]]) = Counts
        /\ \A i \in 1 .. Len(chanInfo) :
              /\ ChannelCounts(mAudioIns, mAudioOuts, "ok",
                               Append(chanInfo, chanInfo[i])) = Counts
              /\ ChannelCounts(mAudioIns, mAudioOuts, "ok",
                               <<chanInfo[i]>> \o chanInfo) = Counts

\* a second run, on a table of two different patterns, from counts that are
\* those of an earlier run and differ from the result
C4_Witness ==
    /\ Negotiated
    /\ Len(chanInfo) = 2
    /\ Declared(chanInfo[1]) \in Patterns
    /\ Declared(chanInfo[2]) \in Patterns
    /\ Declared(chanInfo[1]) # Declared(chanInfo[2])
    /\ chanPrev = <<2, 2>>
    /\ Counts # chanPrev

(***************************************************************************)
(* Instance lifecycle and block processing: the claims                     *)
(***************************************************************************)
\* the calls SetRateAndChannels makes for the current channel counts were all
\* accepted by the plug-in
AllAsked ==
    /\ lastAccept["rateGlobal"]
    /\ mAudioIns > 0 => (lastAccept["rateInput"] /\ lastAccept["formatInput"])
    /\ mAudioOuts > 0 => (lastAccept["rateOutput"] /\ lastAccept["formatOutput"])
    /\ lastAccept["initialize"]

\* C5: when SetRateAndChannels has returned, from a unit that was initialized
\* or not, either it returned true and the unit is initialized, or it returned
\* false and the unit is marked not initialized; it returned true exactly when
\* the plug-in accepted the sample rate on the global scope, rate and format on
\* the input scope when there are inputs and on the output scope when there
\* are outputs, and the initialize call.
C5_SetRateAllOrNothing ==
    op = "SetRateAndChannels" =>
        /\ ret = TRUE => (mUnitInitialized /\ unitInitialized)
        /\ ret = FALSE => ~mUnitInitialized
        /\ ret = AllAsked

\* an initialized unit whose reconfiguration the plug-in rejected
C5_Witness ==
    /\ op = "SetRateAndChannels"
    /\ prevInitialized
    /\ ret = FALSE
    /\ ~mUnitInitialized
    /\ ~unitInitialized

\* C6: ProcessBlock returns blockLen when the render call succeeded and 0 when
\* it failed, and the sample time is the sum of blockLen over the successful
\* ProcessBlock calls since ProcessInitialize.
C6_ProcessBlockCountsFrames ==
    op = "ProcessBlock" =>
        /\ lastRenderOk => ret = lastLen
        /\ ~lastRenderOk => ret = 0
        /\ mSampleTime = producedSum

\* a failed render of a block with frames, after frames were produced
C6_Witness ==
    /\ op = "ProcessBlock"
    /\ ~lastRenderOk
    /\ lastLen > 0
    /\ ret = 0
    /\ producedSum > 0
    /\ mSampleTime = producedSum

(***************************************************************************)
(* Settings cache: the claims                                              *)
(***************************************************************************)
\* the ids of the parameter list
DeclaredIDs == {mParameters[i] : i \in 1 .. Len(mParameters)}

\* the info query and the value query of a parameter both succeed
Queryable(id) == paramMode[id] \notin {"noInfo", "noGet", "noGetSet"}

\* C7: after FetchSettings, which returns true, every declared parameter whose
\* info and value queries succeed holds the plug-in's current value in the
\* cache, whatever came before it in the list, and every other value the cache
\* holds is the zero of the reset.
C7_FetchResetsThenFetches ==
    op = "FetchSettings" =>
        /\ ret = TRUE
        /\ \A id \in DeclaredIDs :
              Queryable(id) => (id \in DOMAIN settings /\ settings[id] = unitValue[id])
        /\ \A id \in DOMAIN settings :
              ~(id \in DeclaredIDs /\ Queryable(id)) => settings[id] = 0

\* a parameter that cannot be fetched keeps the reset zero although the
\* plug-in holds another value, and a later parameter of the list is fetched
C7_Witness ==
    /\ op = "FetchSettings"
    /\ \E i, j \in 1 .. Len(mParameters) :
          /\ i < j
          /\ ~Queryable(mParameters[i])
          /\ mParameters[i] \in DOMAIN settings
          /\ settings[mParameters[i]] = 0
          /\ unitValue[mParameters[i]] = 1
          /\ Queryable(mParameters[j])
          /\ settings[mParameters[j]] = 1

\* the parameters StoreSettings hands to AudioUnitSetParameter with success
Pushed(id) ==
    /\ id \in DeclaredIDs
    /\ id \in DOMAIN settings
    /\ paramMode[id] # "noInfo"
    /\ paramMode[id] \notin {"noSet", "noGetSet"}

\* C8 as amended: after StoreSettings, which returns true and leaves the cache
\* as it was, the plug-in holds the cached value of every declared parameter
\* that is in the cache, whose info query succeeds and whose set does not
\* fail, and every other parameter of the plug-in holds the value it had.
C8_StorePushesNamedPresent ==
    op = "StoreSettings" =>
        /\ ret = TRUE
        /\ settings = prevFetch
        /\ \A id \in ParamIDs :
              unitValue[id] = IF Pushed(id) THEN settings[id] ELSE prevUnit[id]

\* a cached parameter whose info query fails is left alone, another is pushed
C8_Witness ==
    /\ op = "StoreSettings"
    /\ \E a, b \in DeclaredIDs :
          /\ a \in DOMAIN settings
          /\ paramMode[a] = "noInfo"
          /\ unitValue[a] # settings[a]
          /\ Pushed(b)
          /\ prevUnit[b] # settings[b]
          /\ unitValue[b] = settings[b]

\* C8 as claimed: after StoreSettings the plug-in holds the cached value of
\* every declared parameter that is in the cache, unless the set of that
\* parameter failed; a parameter absent from the cache holds the value it had;
\* the cache is as it was and the call returned true.
C8_StorePushesEveryPresent ==
    op = "StoreSettings" =>
        /\ ret = TRUE
        /\ settings = prevFetch
        /\ \A id \in DeclaredIDs :
              /\ (id \in DOMAIN settings /\ paramMode[id] \notin {"noSet", "noGetSet"})
                    => unitValue[id] = settings[id]
              /\ id \notin DOMAIN settings => unitValue[id] = prevUnit[id]

\* C9: a FetchSettings that follows a FetchSettings and a StoreSettings of the
\* untouched cache, with nothing in between, yields the map the first one
\* yielded.
C9_FetchStoreFetchSameMap ==
    trail = "FSF" => settings = prevFetch

\* the second fetch, with a value fetched and a parameter that cannot be
\* fetched and whose reset zero StoreSettings pushed into the plug-in
C9_Witness ==
    /\ trail = "FSF"
    /\ \E a, b \in DeclaredIDs :
          /\ paramMode[a] = "noGet"
          /\ a \in DOMAIN settings
          /\ unitValue[a] = 0
          /\ Queryable(b)
          /\ settings[b] = 1

C11_CacheHoldsDeclaredIdsOnly ==
    DOMAIN settings \subseteq DeclaredIDs

\* a cache FetchSettings has filled from a unit that declares parameters
C11_Witness ==
    /\ op = "FetchSettings"
    /\ mParameters # <<>>
    /\ DOMAIN settings # {}
    /\ \E id \in DeclaredIDs : id \notin DOMAIN settings

(***************************************************************************)
(* The master and its slaves: the claims                                   *)
(***************************************************************************)
\* the slaves of the list
SlaveIndexes == 1 .. Len(mSlaves)

\* C12: when the master's EventListener has handled a parameter change
\* (id, value), it has handed the event to every slave of the list, in list
\* order, each slave has set that id to that value on its own unit and has
\* made no other call, no call was made on another unit, and every slave's
\* unit holds the value.
C12_MasterForwardsToEverySlave ==
    op = "EventListener" =>
        LET event == calls[1]
        IN /\ event.call = "EventListener"
           /\ event.unit = 0
           /\ Len(calls) = 1 + 2 * Len(mSlaves)
           /\ \A i \in SlaveIndexes :
                 /\ calls[2 * i] = Call("EventListener", i, event.id, event.value)
                 /\ calls[2 * i + 1] =
                       Call("AudioUnitSetParameter", i, event.id, event.value)
                 /\ mSlaves[i].value[event.id] = event.value

\* a change handled with two slaves in the list, which both took a new value
C12_Witness ==
    /\ op = "EventListener"
    /\ Len(mSlaves) = 2
    /\ Len(calls) = 5
    /\ calls[1].value = 1
    /\ \A i \in SlaveIndexes : mSlaves[i].value[calls[1].id] = 1
    /\ lastNotified[calls[1].id].many = 2

\* the place of a call in the log of the last handler, 0 when it was not made
CallIndex(name) ==
    IF \E k \in 1 .. Len(calls) : calls[k].call = name
    THEN CHOOSE k \in 1 .. Len(calls) : calls[k].call = name
    ELSE 0

\* C13: when RealtimeAddProcessor has returned true, the slave it added, the
\* last of the list, holds the parameter values the master's unit holds, and
\* CopyParameters ran before the slave entered the list and before the
\* slave's ProcessInitialize, hence before any block.
C13_SlaveStartsWithMasterValues ==
    (op = "RealtimeAddProcessor" /\ ret = TRUE) =>
        /\ Len(mSlaves) > 0
        /\ mSlaves[Len(mSlaves)].value = unitValue
        /\ 0 < CallIndex("CopyParameters")
        /\ CallIndex("CopyParameters") < CallIndex("mSlaves.push_back")
        /\ CallIndex("mSlaves.push_back") < CallIndex("ProcessInitialize")

\* a second slave added while the master holds a value that is not the one
\* a new unit starts with
C13_Witness ==
    /\ op = "RealtimeAddProcessor"
    /\ ret = TRUE
    /\ Len(mSlaves) = 2
    /\ unitValue # DefaultValues
    /\ mSlaves[2].value = unitValue

\* C14 as amended: a parameter change on the master reaches the slaves when
\* its notification is handled, in no order with the audio thread: whenever
\* no notification is pending, every slave of the list holds the master's
\* value of every registered parameter.
C14_SlavesFollowOnceDelivered ==
    pending = <<>> =>
        \A i \in SlaveIndexes : \A id \in RegisteredIDs(mParameters) :
            mSlaves[i].value[id] = unitValue[id]

\* the last pending notification was handled in the middle of a cycle and
\* brought two slaves to the master's new value
C14_Witness ==
    /\ op = "EventListener"
    /\ pending = <<>>
    /\ audioPc = "cycle"
    /\ Len(mSlaves) = 2
    /\ cycleMaster # unitValue
    /\ \A i \in SlaveIndexes : mSlaves[i].value = unitValue

\* C14 as claimed: no slave renders a block, in a cycle that began after the
\* master's value changed, with a value older than the master's.
C14_NoSlaveRendersOlderValue ==
    ~staleRender

\* C15: for every slave and every parameter, once notifications for the
\* parameter have been handled, the slave's unit holds the value of the last
\* one handled.
C15_LastNotificationWins ==
    \A i \in SlaveIndexes : \A id \in ParamIDs :
        lastNotified[id].many > 0 => mSlaves[i].value[id] = lastNotified[id].value

\* two notifications for a parameter were handled one after the other, the
\* last of them carrying zero, with two slaves in the list
C15_Witness ==
    /\ op = "EventListener"
    /\ Len(mSlaves) = 2
    /\ \E id \in ParamIDs :
          /\ lastNotified[id].many = 2
          /\ lastNotified[id].value = 0
          /\ \A i \in SlaveIndexes : mSlaves[i].value[id] = 0

\* the channels of the master's summing input buffers
MasterChannels == 1 .. mAudioIns

\* C16: the master pass of RealtimeProcessEnd is handed, in each of the
\* master's input channels, the sample by sample sum of the inputs of all
\* RealtimeProcess calls of the cycle, only the master's own channels of
\* them, and runs over the largest frame count of those calls.
C16_MasterPassGetsSumOfInputs ==
    op = "RealtimeProcessEnd" =>
        /\ DOMAIN passIn.data = MasterChannels
        /\ \A c \in MasterChannels : passIn.data[c] = passIn.cycle.sum[c]
        /\ passIn.len = passIn.cycle.longest
        /\ calls = <<Call("ProcessBlock", 0, 0, passIn.cycle.longest)>>

\* a cycle of two calls of different lengths: the first sample of a channel
\* holds two inputs, the second one
C16_Witness ==
    /\ op = "RealtimeProcessEnd"
    /\ passIn.cycle.count = 2
    /\ passIn.len = 2
    /\ passIn.data[1][1] = 2
    /\ passIn.data[1][2] = 1
    /\ passIn.data[2][1] = 4
    /\ HostChannels(mAudioIns) > mAudioIns

\* C17: RealtimeProcess(group, in, out, n) has added in to the summing input
\* buffers, which hold the sum of the cycle's inputs so far, has called
\* ProcessBlock on the slave at index group and on no other instance, and
\* returns that call's result: n when the render succeeded, 0 when it failed.
C17_ProcessDelegatesToItsSlave ==
    op = "RealtimeProcess" =>
        LET group == calls[1].id
            n == calls[1].value
        IN /\ calls = <<Call("RealtimeProcess", 0, group, n),
                        Call("ProcessBlock", group, 0, n)>>
           /\ \A c \in MasterChannels : mMasterIn.data[c] = cycleIns.sum[c]
           /\ mNumSamples = cycleIns.longest
           /\ lastLen = n
           /\ ret = IF lastRenderOk THEN n ELSE 0

\* the second call of a cycle, for the second slave, whose render failed
C17_Witness ==
    /\ op = "RealtimeProcess"
    /\ calls[1].id = 2
    /\ calls[2].unit = 2
    /\ cycleIns.count = 2
    /\ ~lastRenderOk
    /\ ret = 0
    /\ mMasterIn.data[1][1] = 2

\* every sample of the buffers is zero
AllZero(buf) ==
    \A c \in DOMAIN buf.data : \A s \in DOMAIN buf.data[c] : buf.data[c][s] = 0

\* C18 as amended: when RealtimeProcessStart has returned, every sample of
\* every summing input buffer is zero and the frame counter is zero, whatever
\* the cycle before left in them.
C18_StartClearsInputSums ==
    op = "RealtimeProcessStart" =>
        /\ ret = TRUE
        /\ AllZero(mMasterIn)
        /\ mNumSamples = 0

\* a cycle begins after one that summed inputs and rendered: the output
\* buffers still hold what the master pass rendered
C18_Witness ==
    /\ op = "RealtimeProcessStart"
    /\ mSampleTime > 0
    /\ AllZero(mMasterIn)
    /\ ~AllZero(mMasterOut)

\* C18 as claimed: when RealtimeProcessStart has returned, every sample of
\* every summing input buffer and of every summing output buffer is zero and
\* the frame counter is zero.
C18_StartClearsAllSums ==
    op = "RealtimeProcessStart" =>
        /\ AllZero(mMasterIn)
        /\ AllZero(mMasterOut)
        /\ mNumSamples = 0

C20_SuspendResumeAreSoft ==
    [][op' \in {"RealtimeSuspend", "RealtimeResume"} =>
          /\ UNCHANGED <<ioAllocated, mMasterIn, mMasterOut, mReady,
                         mUnitInitialized, unitInitialized, mSlaves,
                         renderCallbackSet, mNumSamples>>
          /\ \A k \in 1 .. Len(calls') : calls'[k] = Plain("AudioUnitReset", 0)]_vars

\* a resume whose reset failed, on a ready master with slaves, buffers and a
\* registered callback
C20_Witness ==
    /\ op = "RealtimeResume"
    /\ ret = FALSE
    /\ mReady
    /\ mUnitInitialized
    /\ ioAllocated
    /\ renderCallbackSet
    /\ mMasterIn.alloc
    /\ mMasterOut.alloc
    /\ Len(mSlaves) = 2

(***************************************************************************)
(* Latency: the claims                                                     *)
(***************************************************************************)
\* C21, as stated: with latency compensation enabled, every GetLatency call
\* of a session returns what the first call of that session returned, and
\* only the first call asks the plug-in.
C21_EveryCallReturnsFirstValue ==
    (mUseLatency /\ sessionOpen) =>
        \A i \in 1 .. Len(latencyLog) :
            /\ latencyLog[i].value = latencyLog[1].value
            /\ latencyLog[i].queried = (i = 1)

\* C21, amended: with latency compensation enabled, only the first GetLatency
\* call after a ProcessInitialize that returned true asks the plug-in, and it
\* returns the answer times the sample rate, the fraction dropped (0 when the
\* query fails); every later call of the session returns 0 and asks nothing.
C21_LatencyReportedOncePerSession ==
    (mUseLatency /\ sessionOpen) =>
        \A i \in 1 .. Len(latencyLog) :
            IF i = 1
            THEN /\ latencyLog[i].queried
                 /\ latencyLog[i].value =
                       (latencyLog[i].answer * latencyLog[i].rate) \div 1000
            ELSE /\ ~latencyLog[i].queried
                 /\ latencyLog[i].value = 0

C21_Witness ==
    /\ mUseLatency
    /\ sessionOpen
    /\ op = "GetLatency"
    /\ Len(latencyLog) >= 2
    /\ latencyLog[1].value > 0
    /\ latencyLog[2].value = 0

(***************************************************************************)
(* Presets: the claims                                                     *)
(***************************************************************************)
\* C22: after a LoadPreset that migrated a preset of the older format, the
\* group's "Parameters" key is absent, and a LoadPreset of the same group
\* that follows finds no such key and reads the blob under "Data".
C22_MigratedOnceThenLoadsData ==
    /\ (op = "LoadPreset" /\ lastLoad.path = "migrated") =>
           ~HasLegacy(config, lastLoad.group)
    /\ (op = "LoadPreset" /\ prevLoad.path = "migrated"
           /\ prevLoad.group = lastLoad.group) =>
           lastLoad.path \in DataPaths \ {"notFound"}

\* the step of the decoding that fails first, "" when none does
FirstFailure(blob, answers) ==
    IF blob.kind = "empty" THEN "wxBase64Decode"
    ELSE IF ~answers.dataOk THEN "CFDataCreateWithBytesNoCopy"
    ELSE IF ~IsPropertyList(blob) THEN "CFPropertyListCreateWithData"
    ELSE IF ~answers.accept THEN "AudioUnitSetProperty"
    ELSE ""

\* the steps in the order the claim gives them
StepOrder(name) ==
    IF name = "wxBase64Decode" THEN 1
    ELSE IF name \in {"CFDataCreateWithBytesNoCopy", "CFPropertyListCreateWithData"} THEN 2
    ELSE IF name = "AudioUnitSetProperty" THEN 3
    ELSE 4

SerializationEnded ==
    IF Len(calls) = 3 THEN calls[3].value ELSE -2

C26_ExportKeepsConfiguration ==
    op = "ExportOnOk" => config = configBefore

\* an export that converted a stored binary blob to XML and wrote the file,
\* and another that failed after it
C26_Witness ==
    /\ op = "ExportOnOk"
    /\ Len(attempts) = 2
    /\ attempts[1].path = "done"
    /\ attempts[2].path # "done"
    /\ IsBin(wxBase64Decode(configBefore[UserPresetsGroup(attempts[1].name)].Data))
    /\ files[attempts[1].name].kind = "xml"
    /\ files # filesBefore
    /\ config = configBefore

\* the selected presets were taken in list order up to the first failure,
\* what the earlier ones wrote is still there, and the failure was reported
BatchAbortsAtFirstFailure ==
    /\ Len(attempts) <= Len(selection)
    /\ \A i \in 1..Len(attempts) :
          /\ attempts[i].name = selection[i]
          /\ i < Len(attempts) => attempts[i].path = "done"
          /\ attempts[i].path = "done" =>
                LET name == attempts[i].name
                    group == UserPresetsGroup(name)
                IN IF op = "ExportOnOk"
                   THEN files[name] =
                           ExportedFile(filesBefore[name], configBefore[group].Data, "none")
                   ELSE config[group].Data = wxBase64Encode(filesBefore[name])
    /\ ~AllDone(selection, attempts) =>
          /\ attempts # <<>>
          /\ attempts[Len(attempts)].path # "done"
          /\ message # ""

\* the modal loop was ended with wxID_OK only when every selected preset
\* succeeded
ClosedWithOkOnlyWhenAllDone ==
    dialogEnd # "" => AllDone(selection, attempts)

\* C27: batch export and batch import take the selected presets in list
\* order and stop at the first failure: the presets before it stay exported
\* or imported, none after it is attempted, the failure is reported with a
\* message, and the dialog is closed with OK only when every selected preset
\* succeeded.
C27_BatchAbortsAndClosesOnlyWhenDone ==
    op \in {"ExportOnOk", "ImportOnOk"} =>
        /\ BatchAbortsAtFirstFailure
        /\ ClosedWithOkOnlyWhenAllDone

(***************************************************************************)
(* The descriptor codes: the claims                                        *)
(***************************************************************************)
\* the four bytes as one character each
TextOfBytes(type) == <<type[1], type[2], type[3], type[4]>>

\* C28: the conversion inverts the byte order and round-trips: for every
\* identifier x with four non-zero bytes FromOSType(x) is the 4-character
\* text of x's bytes from the most to the least significant and
\* ToOSType(FromOSType(x)) = x; for every 4-character text t,
\* FromOSType(ToOSType(t)) = t.
C28_CodesRoundTrip ==
    /\ (osInput.kind = "type" /\ (\A k \in 1..4 : osInput.type[k] # 0)) =>
          /\ osDone = <<"FromOSType">> =>
                osText = TextOfBytes(osInput.type)
          /\ osDone = <<"FromOSType", "ToOSType">> => osType = osInput.type
    /\ (osInput.kind = "text" /\ osDone = <<"ToOSType", "FromOSType">>) =>
          osText = osInput.text

\* the same for identifiers whose bytes are in 1..127 and for texts of such
\* characters, where one byte is one character
CodesRoundTripForASCII ==
    /\ (osInput.kind = "type" /\ (\A k \in 1..4 : osInput.type[k] \in 1..127)) =>
          /\ osDone = <<"FromOSType">> =>
                osText = TextOfBytes(osInput.type)
          /\ osDone = <<"FromOSType", "ToOSType">> => osType = osInput.type
    /\ (osInput.kind = "text" /\ osDone = <<"ToOSType", "FromOSType">>
            /\ \A k \in 1..4 : osInput.text[k] \in 1..127) =>
          osText = osInput.text

(***************************************************************************)
(* Channel counts of a slave and of the master: the claims                 *)
(***************************************************************************)
\* the argument of the call of that name in the log of the last handler
CallValue(name) ==
    LET i == CHOOSE i \in 1 .. Len(calls) : calls[i].call = name
    IN calls[i].value

\* the slave the last RealtimeAddProcessor appended
AddedSlave == mSlaves[Len(mSlaves)]

\* C29 as stated: the stream format the slave of RealtimeAddProcessor(
\* numChannels, sampleRate) negotiates before processing has numChannels as
\* its channel count and sampleRate as its rate.
C29_SlaveFormatFollowsGroup ==
    (op = "RealtimeAddProcessor" /\ ret) =>
        /\ AddedSlave.format.mSampleRate = CallValue("SetSampleRate")
        /\ AddedSlave.format.input = CallValue("SetChannelCount")

\* C29: the slave of RealtimeAddProcessor(numChannels, sampleRate) stores
\* numChannels and sampleRate, and the stream format it negotiates before
\* processing has sampleRate as its rate and, as its channel counts, the pair
\* the slave chose in SetHost, whatever numChannels is.
C29_SlaveFormatKeepsOwnPair ==
    (op = "RealtimeAddProcessor" /\ ret) =>
        /\ AddedSlave.mNumChannels = CallValue("SetChannelCount")
        /\ AddedSlave.mSampleRate = CallValue("SetSampleRate")
        /\ AddedSlave.format =
              StreamFormat(CallValue("SetSampleRate"), AddedSlave.mAudioIns,
                           AddedSlave.mAudioOuts)

\* a slave added for the mono group at 48000 by an effect of two inputs
C29_Witness ==
    /\ op = "RealtimeAddProcessor"
    /\ ret
    /\ CallValue("SetChannelCount") = 1
    /\ CallValue("SetSampleRate") = 48000
    /\ AddedSlave.mNumChannels = 1
    /\ AddedSlave.format = StreamFormat(48000, 2, 1)

\* C30: the channel pair SetHost chose stays: no step of SetSampleRate,
\* SetChannelCount, SetBlockSize, ProcessInitialize, ProcessBlock,
\* ProcessFinalize, the realtime handlers, LoadPreset, SavePreset or the
\* listener changes what GetAudioInCount and GetAudioOutCount return.
C30_ChannelPairNeverChanges ==
    [][mAudioIns' = mAudioIns /\ mAudioOuts' = mAudioOuts]_vars

\* SetChannelCount has stored a count that is neither of the pair, on an
\* instance that plays in realtime with a slave
C30_Witness ==
    /\ op = "SetChannelCount"
    /\ mNumChannels # mAudioIns
    /\ mNumChannels # mAudioOuts
    /\ mSlaves # <<>>
    /\ audioPc = "cycle"

(***************************************************************************)
(* The slave list: the claims                                              *)
(***************************************************************************)
\* C31: the list holds one slave for each RealtimeAddProcessor that returned
\* true since the last RealtimeFinalize: a RealtimeAddProcessor that returns
\* true adds one slave, one that returns false leaves the list as it was,
\* RealtimeFinalize empties it, and no other handler changes its length.
C31_OneSlavePerSuccessfulAdd ==
    [][/\ (op' = "RealtimeAddProcessor" /\ ret') => Len(mSlaves') = Len(mSlaves) + 1
       /\ (op' = "RealtimeAddProcessor" /\ ~ret') => mSlaves' = mSlaves
       /\ op' = "RealtimeFinalize" => mSlaves' = <<>>
       /\ op' \notin {"RealtimeAddProcessor", "RealtimeFinalize"} =>
             Len(mSlaves') = Len(mSlaves)]_vars

\* the same without the case of the slave whose ProcessInitialize fails
OneSlavePerAddThatReachedTheList ==
    [][/\ (op' = "RealtimeAddProcessor" /\ ret') => Len(mSlaves') = Len(mSlaves) + 1
       /\ (op' = "RealtimeAddProcessor" /\ ~ret'
              /\ calls'[Len(calls')].call # "ProcessInitialize") => mSlaves' = mSlaves
       /\ op' = "RealtimeFinalize" => mSlaves' = <<>>
       /\ op' \notin {"RealtimeAddProcessor", "RealtimeFinalize"} =>
             Len(mSlaves') = Len(mSlaves)]_vars

\* C32: a parameter is set on a unit only outside a render call on that unit:
\* in no state has the listener set a parameter on the slave whose unit the
\* audio thread is rendering.
C32_NoParameterSetDuringRender ==
    rendering # NotRendering =>
        \A i \in DOMAIN calls :
            ~(calls[i].call = "AudioUnitSetParameter" /\ calls[i].unit = rendering.slave)

\* outside a render call the listener does set the parameter on every slave
ListenerSetsOutsideRender ==
    /\ rendering = NotRendering
    /\ op = "EventListener"
    /\ \E i \in DOMAIN calls : calls[i].call = "AudioUnitSetParameter"

(***************************************************************************)
(* PendingTracks: the claims                                               *)
(***************************************************************************)
\* C33: ApplyPendingTracks leaves nothing pending, whether or not the track
\* list changed, and returns true exactly when the track list differs from the
\* one it found; right after it or ClearPendingTracks, and as long as nothing
\* is pending, SubstitutePendingChangedTrack returns the track it is given.
C33_ApplyClearsAndReportsChange ==
    /\ op = "ApplyPendingTracks" =>
          /\ mPendingUpdates = <<>>
          /\ ret <=> (mTracks # tracksBefore)
    /\ op \in {"ApplyPendingTracks", "ClearPendingTracks"} =>
          \A id \in DOMAIN mTracks :
              SubstitutePendingChangedTrack(mPendingUpdates, ActualTrack(mTracks, id))
                  = ActualTrack(mTracks, id)
    /\ (op = "SubstitutePendingChangedTrack"
           /\ lastSubstitute.after \in {"ApplyPendingTracks", "ClearPendingTracks"}) =>
          lastSubstitute.returned = lastSubstitute.given

\* SubstitutePendingChangedTrack ran right after ApplyPendingTracks, was handed
\* an actual track and found nothing pending
C33_Witness ==
    /\ op = "SubstitutePendingChangedTrack"
    /\ lastSubstitute.after = "ApplyPendingTracks"
    /\ ~lastSubstitute.given.pending
    /\ mPendingUpdates = <<>>

(***************************************************************************)
(* The ready flag: the claims                                              *)
(***************************************************************************)
\* C34: an instance that reports ready has an initialized unit and allocated
\* I/O lists, and a ProcessInitialize that returned false has not left the
\* instance ready.
C34_ReadyMeansInitializedAndAllocated ==
    /\ mReady => (unitInitialized /\ ioAllocated)
    /\ (op = "ProcessInitialize" /\ ~ret) => ~mReady

\* a ProcessInitialize that returns true does leave the instance ready, its
\* unit initialized and its I/O lists allocated, and one that returns false
\* leaves the flag as it found it
ReadyAfterProcessInitialize ==
    [][op' = "ProcessInitialize" =>
          IF ret' THEN mReady' /\ unitInitialized' /\ ioAllocated'
          ELSE mReady' = mReady]_vars

(***************************************************************************)
(* LoadPreset: the claims                                                  *)
(***************************************************************************)
\* C35: when LoadPreset has removed the "Parameters" key of a group, the
\* group holds a "Data" value that is not empty.
C35_LegacyRemovedOnlyAfterDataStored ==
    (op = "LoadPreset" /\ lastLoad.path = "migrated") =>
        /\ HasData(config, lastLoad.group)
        /\ ~IsEmptyText(config[lastLoad.group].Data)

\* the key is removed only when SavePreset returned true, and a SavePreset
\* that serialized data of a length above zero has stored it by then
LegacyRemovedAfterSaveOfData ==
    (op = "LoadPreset" /\ lastLoad.path = "migrated") =>
        /\ SaveResult(lastLoad.answers.serial, lastLoad.answers.writeOk)
        /\ lastLoad.answers.serial = "data" =>
              wxBase64Decode(config[lastLoad.group].Data).kind = "bplist"

\* the ways of LoadPreset on which the stored preset did not reach the unit:
\* no key, no byte, no CFData, no property list, a text that cannot be read,
\* parameters that could not be set, class info the unit rejected
NotApplied ==
    {"notFound", "noBytes", "noData", "noPlist", "legacyUnread", "legacyUnset",
     "rejected"}

\* C36: LoadPreset returns false whenever the stored preset was not applied
\* to the unit.
C36_TrueOnlyWhenApplied ==
    (op = "LoadPreset" /\ lastLoad.path \in NotApplied) => ~ret

\* without a "Parameters" key LoadPreset returns true exactly when the unit
\* has taken the class info
BlobLoadTrueOnlyWhenApplied ==
    (op = "LoadPreset" /\ lastLoad.path \in DataPaths) =>
        (ret <=> lastLoad.path = "loaded")

\* the place, in the log of the handler that has just run, of the first call
\* of this name on this unit, 0 when there is none
NextCallIndex(name, unit) ==
    LET found == {i \in DOMAIN calls' : calls'[i].call = name /\ calls'[i].unit = unit}
    IN IF found = {} THEN 0 ELSE CHOOSE i \in found : \A j \in found : i <= j

\* C37: a LoadPreset that has set the class info of a "Data" blob on the
\* master sets the same class info on every slave of the list afterwards and
\* returns true; a slave that rejects it is logged and keeps its state while
\* the slaves after it are still set; when the master was not set, no call
\* is made on a slave and the slaves stay as they were.
C37_BlobPushedToEverySlave ==
    [][(op' = "LoadPreset" /\ lastLoad'.path \in DataPaths) =>
          IF lastLoad'.path = "loaded"
          THEN /\ ret'
               /\ Len(mSlaves') = Len(mSlaves)
               /\ \A i \in 1 .. Len(mSlaves) :
                     /\ NextCallIndex("AudioUnitSetProperty", 0) > 0
                     /\ NextCallIndex("AudioUnitSetProperty", i)
                           > NextCallIndex("AudioUnitSetProperty", 0)
                     /\ IF NextCallIndex("wxLogError", i) > 0
                        THEN mSlaves'[i] = mSlaves[i]
                        ELSE mSlaves'[i] =
                                [mSlaves[i] EXCEPT !.value = lastLoad'.blob.value]
               /\ unitValue' = lastLoad'.blob.value
          ELSE /\ ~ret'
               /\ mSlaves' = mSlaves
               /\ \A i \in DOMAIN calls' : calls'[i].unit = 0]_vars

\* the first of two slaves rejected the class info, which differed from what
\* the slaves held, and the second took it
C37_Witness ==
    /\ op = "LoadPreset"
    /\ lastLoad.path = "loaded"
    /\ ret
    /\ Len(mSlaves) = 2
    /\ \E i \in DOMAIN calls : calls[i] = Plain("wxLogError", 1)
    /\ mSlaves[1].value # lastLoad.blob.value
    /\ mSlaves[2].value = lastLoad.blob.value

(***************************************************************************)
(* The effect type: the claims                                             *)
(***************************************************************************)
\* C38: once GetChannelCounts has run the counts are never both 0, so GetType
\* never returns EffectTypeNone: it returns Generate exactly when there is no
\* input, Analyze exactly when there is no output and Process otherwise, and
\* SupportsRealtime returns true exactly when neither count is 0.
C38_TypeFollowsCounts ==
    chanQuery # "none" =>
        /\ ~(mAudioIns = 0 /\ mAudioOuts = 0)
        /\ op = "GetType" =>
              /\ ret # "EffectTypeNone"
              /\ ret = "EffectTypeGenerate" <=> mAudioIns = 0
              /\ ret = "EffectTypeAnalyze" <=> mAudioOuts = 0
              /\ ret = "EffectTypeProcess" <=> (mAudioIns # 0 /\ mAudioOuts # 0)
        /\ op = "SupportsRealtime" =>
              (ret <=> (mAudioIns # 0 /\ mAudioOuts # 0))

\* GetType on an instance that was constructed with both counts 0 and whose
\* unit declares that it takes no input
C38_Witness ==
    /\ op = "GetType"
    /\ chanPrev = <<0, 0>>
    /\ mAudioIns = 0
    /\ ret = "EffectTypeGenerate"

(***************************************************************************)
(* The factory defaults: the claims                                        *)
(***************************************************************************)
\* the last SetHost made this call on the configuration
Made(name) == \E i \in DOMAIN calls' : calls'[i].call = name

\* C39: SetHost runs SavePreset for the factory defaults only when it has a
\* host and finds the "Initialized" flag unset, and the flag is set when it
\* returns; a SetHost that finds the flag set leaves the group of the factory
\* defaults as it is; a SetHost without a host makes no call on the
\* configuration and leaves all of it as it is.
C39_FactoryDefaultsCapturedOnce ==
    [][op' = "SetHost" =>
          /\ Made("SavePreset") =>
                /\ mHost' = "host"
                /\ ~config[FactoryDefaultsGroup].Initialized
          /\ Made("GetPrivateConfig") => config'[FactoryDefaultsGroup].Initialized
          /\ config[FactoryDefaultsGroup].Initialized =>
                config'[FactoryDefaultsGroup] = config[FactoryDefaultsGroup]
          /\ config'[FactoryDefaultsGroup].Data # config[FactoryDefaultsGroup].Data =>
                Made("SavePreset")
          /\ mHost' = "NULL" =>
                /\ config' = config
                /\ calls' = <<>>]_vars

\* a SetHost with a host found the flag set by an earlier one and the blob
\* that one stored, and left both
C39_Witness ==
    /\ op = "SetHost"
    /\ mHost = "host"
    /\ ret
    /\ config[FactoryDefaultsGroup].Initialized
    /\ wxBase64Decode(config[FactoryDefaultsGroup].Data).kind = "bplist"
    /\ \A i \in DOMAIN calls : calls[i].call # "SavePreset"
    /\ \E i \in DOMAIN calls : calls[i].call = "GetPrivateConfig"

====
